---- MODULE Spec2Model ----
(***************************************************************************)
(* Model of the cubed-sphere layers of DLWP/custom.py:                     *)
(*   CubeSpherePadding2D.call  (halo exchange between the six faces)       *)
(*   CubeSphereConv2D.call     (per-face convolution with shared weights)  *)
(* Tensors are modelled with their shape and their cells; indices are      *)
(* 0-based as in the source.                                               *)
(* Spec: CubeSpherePadding2D.call.  SpecConv: build and call of            *)
(* CubeSphereConv2D.  SpecLayers: the constructors and get_config.         *)
(* SpecShape: compute_output_shape and call, alone and behind a padding.   *)
(* SpecTrain: the callbacks EarlyStoppingMin and SaveWeightsOnEpoch in a   *)
(* training run.  SpecRow: build and call of RowConnected2D (row_conv2d).  *)
(***************************************************************************)
EXTENDS Integers, Sequences, FiniteSets, TLC

\* ------------------------------------------------------------------ bounds
MaxN == 3
MaxPad == 6
MaxBatch == 2
MaxChan == 2
ConvSide == 3
MaxConvChan == 2
Filters == 2
ShapeSide == 3
MaxKernel == 3
MaxHalo == 2
BigSide == 8
PipeFilters == 4
MaxLoss == 3
FitEpochs == 5
MaxPatience == 2
MaxMinEpochs == 2
MaxMaxEpochs == 3
MaxInterval == 3
MaxRowKernel == 2
MaxRowStride == 2
MaxRows == 4
MaxCols == 3
MaxRowFilters == 2

\* The face axis of a cube-sphere tensor has length 6.
NumFaces == 6

VARIABLES
    padding,    \* CubeSpherePadding2D.padding, ((p, p), (p, p), (0, 0))
    inputs,     \* the argument of CubeSpherePadding2D.call
    out1,       \* the height-padded intermediate tensor of call
    outputs,    \* the tensor call returns
    pc,         \* position of CubeSpherePadding2D.call
    layer,      \* the attributes of a CubeSphereConv2D instance
    conv_in,    \* the argument `inputs` of CubeSphereConv2D.call
    face_out,   \* the list `outputs` of call: entry f + 1 is outputs[f]
    conv_out,   \* `outputs` of call after K.concatenate, before the activation
    conv_ret,   \* the tensor CubeSphereConv2D.call returns
    conv_pc,    \* position of the CubeSphereConv2D instance
    pad_args,   \* the arguments of the last CubeSpherePadding2D(...) call
    conv_args,  \* the arguments of the last CubeSphereConv2D(...) call
    out_shape,  \* what compute_output_shape has returned
    image_data_format,  \* K.image_data_format(), the Keras configuration
    early,      \* an EarlyStoppingMin instance and the model it watches
    saver,      \* a SaveWeightsOnEpoch instance and the saves it has asked for
    rowc        \* a RowConnected2D instance and the locals of row_conv2d

utilVars == <<early, saver, rowc>>
cubeVars == <<padding, inputs, out1, outputs, pc, pad_args,
              layer, conv_in, face_out, conv_out, conv_ret, conv_pc, conv_args,
              out_shape, image_data_format>>
padVars == <<padding, inputs, out1, outputs, pc, pad_args, image_data_format,
             early, saver, rowc>>
convVars == <<layer, conv_in, face_out, conv_out, conv_ret, conv_pc, conv_args,
              out_shape, image_data_format, early, saver, rowc>>
vars == <<padding, inputs, out1, outputs, pc, pad_args,
          layer, conv_in, face_out, conv_out, conv_ret, conv_pc, conv_args,
          out_shape, image_data_format, early, saver, rowc>>

\* ------------------------------------------------------------ tensor values
\* A tensor is [ok, shape, at]: `at` maps every 0-based index tuple of `shape`
\* to the cell there.  ErrT is what an operation that raises leaves behind.
ErrT == [ok |-> FALSE, shape |-> <<>>, at |-> <<>>]
NoneT == [ok |-> FALSE, shape |-> <<0>>, at |-> <<>>]

Dom4(s) == (0..(s[1]-1)) \X (0..(s[2]-1)) \X (0..(s[3]-1)) \X (0..(s[4]-1))
Dom5(s) == (0..(s[1]-1)) \X (0..(s[2]-1)) \X (0..(s[3]-1)) \X (0..(s[4]-1))
               \X (0..(s[5]-1))
DomOf(s) == IF Len(s) = 4 THEN Dom4(s) ELSE Dom5(s)

Max2(a, b) == IF a >= b THEN a ELSE b
Min2(a, b) == IF a <= b THEN a ELSE b

\* ---------------------------------------------------------- Python slicing
\* A slice lo:hi:step; a missing bound (None) is <<>>, a given bound v is <<v>>.
SliceAll == [lo |-> <<>>, hi |-> <<>>, step |-> 1]
SliceFrom(a) == [lo |-> <<a>>, hi |-> <<>>, step |-> 1]
SliceTo(b) == [lo |-> <<>>, hi |-> <<b>>, step |-> 1]
SliceRange(a, b) == [lo |-> <<a>>, hi |-> <<b>>, step |-> 1]
SliceRev == [lo |-> <<>>, hi |-> <<>>, step |-> -1]

\* The clamping of a slice bound on an axis of length n (slice.indices).
AdjustBound(v, n, step) ==
    IF v < 0
    THEN Max2(v + n, IF step < 0 THEN -1 ELSE 0)
    ELSE Min2(v, IF step < 0 THEN n - 1 ELSE n)

SliceStart(sl, n) ==
    IF sl.lo = <<>> THEN (IF sl.step < 0 THEN n - 1 ELSE 0)
    ELSE AdjustBound(sl.lo[1], n, sl.step)

SliceStop(sl, n) ==
    IF sl.hi = <<>> THEN (IF sl.step < 0 THEN -1 ELSE n)
    ELSE AdjustBound(sl.hi[1], n, sl.step)

SliceLen(sl, n) ==
    IF sl.step < 0
    THEN Max2(SliceStart(sl, n) - SliceStop(sl, n), 0)
    ELSE Max2(SliceStop(sl, n) - SliceStart(sl, n), 0)

\* The source index of position k (0-based) of the slice.
SliceIdx(sl, n, k) == SliceStart(sl, n) + k * sl.step

\* ------------------------------------------------------- tensor operations
\* x[..., f] of a 5-D tensor: one face, a 4-D tensor.
Face(x, f) ==
    IF ~x.ok \/ Len(x.shape) # 5 THEN ErrT
    ELSE IF f >= x.shape[5] THEN ErrT
    ELSE [ok |-> TRUE,
          shape |-> SubSeq(x.shape, 1, 4),
          at |-> [i \in Dom4(x.shape) |-> x.at[<<i[1], i[2], i[3], i[4], f>>]]]

\* x[:, :, rows, cols] of a 4-D tensor.
Slice4(x, rows, cols) ==
    IF ~x.ok THEN ErrT
    ELSE LET h == x.shape[3]
             w == x.shape[4]
             s == <<x.shape[1], x.shape[2], SliceLen(rows, h), SliceLen(cols, w)>>
         IN [ok |-> TRUE,
             shape |-> s,
             at |-> [i \in Dom4(s) |->
                       x.at[<<i[1], i[2], SliceIdx(rows, h, i[3]),
                              SliceIdx(cols, w, i[4])>>]]]

\* inputs[:, :, rows, cols, f]
Slice5(x, rows, cols, f) == Slice4(Face(x, f), rows, cols)

NormAxis(axis, rank) == IF axis < 0 THEN axis + rank ELSE axis

\* K.reverse(x, axes) with one axis.
K_reverse(x, axes) ==
    IF ~x.ok THEN ErrT
    ELSE LET a == NormAxis(axes, Len(x.shape)) + 1
         IN [ok |-> TRUE,
             shape |-> x.shape,
             at |-> [i \in DomOf(x.shape) |->
                       x.at[[i EXCEPT ![a] = x.shape[a] - 1 - i[a]]]]]

\* tf.transpose(x, perm) of a 4-D tensor; perm is 0-based as in the source.
tf_transpose(x, perm) ==
    IF ~x.ok THEN ErrT
    ELSE LET s == [k \in 1..4 |-> x.shape[perm[k] + 1]]
             inv(m) == CHOOSE k \in 1..4 : perm[k] + 1 = m
         IN [ok |-> TRUE,
             shape |-> s,
             at |-> [i \in Dom4(s) |-> x.at[[m \in 1..4 |-> i[inv(m)]]]]]

\* The permutation tr = (0, 1, 3, 2) of call.
tr == <<0, 1, 3, 2>>

\* K.expand_dims(x, -1) of a 4-D tensor.
K_expand_dims(x) ==
    IF ~x.ok THEN ErrT
    ELSE LET s == x.shape \o <<1>>
         IN [ok |-> TRUE,
             shape |-> s,
             at |-> [i \in Dom5(s) |-> x.at[<<i[1], i[2], i[3], i[4]>>]]]

RECURSIVE SumSizes(_, _, _)
\* The total length along axis a (1-based) of the first k tensors of ts.
SumSizes(ts, a, k) ==
    IF k = 0 THEN 0 ELSE SumSizes(ts, a, k - 1) + ts[k].shape[a]

\* K.concatenate(ts, axis): the list must not be empty and the tensors must
\* agree on every other axis.
K_concatenate(ts, axis) ==
    IF Len(ts) = 0 THEN ErrT
    ELSE IF \E k \in 1..Len(ts) : ~ts[k].ok THEN ErrT
    ELSE LET rank == Len(ts[1].shape)
             a == NormAxis(axis, rank) + 1
         IN IF \E k \in 1..Len(ts) :
                   \/ Len(ts[k].shape) # rank
                   \/ \E m \in 1..rank : m # a /\ ts[k].shape[m] # ts[1].shape[m]
            THEN ErrT
            ELSE LET s == [ts[1].shape EXCEPT ![a] = SumSizes(ts, a, Len(ts))]
                     part(j) == CHOOSE k \in 1..Len(ts) :
                                   /\ SumSizes(ts, a, k - 1) <= j
                                   /\ j < SumSizes(ts, a, k)
                 IN [ok |-> TRUE,
                     shape |-> s,
                     at |-> [i \in DomOf(s) |->
                               LET k == part(i[a])
                               IN ts[k].at[[i EXCEPT
                                     ![a] = i[a] - SumSizes(ts, a, k - 1)]]]]

\* ---------------------------------------------------- CubeSpherePadding2D
\* p = self.padding[0][0]
HaloWidth == padding[1][1]

\* The strips of the first pass of call (upper and lower boundaries), cut
\* from the raw input x.  TopK / BottomK is the strip put above / below face K.
Top0(x, p) == Slice5(x, SliceFrom(-p), SliceAll, 4)
Bottom0(x, p) == Slice5(x, SliceTo(p), SliceAll, 5)
Top1Unreversed(x, p) == tf_transpose(Slice5(x, SliceAll, SliceFrom(-p), 4), tr)
Top1(x, p) == tf_transpose(Slice5(x, SliceRev, SliceFrom(-p), 4), tr)
Bottom1(x, p) == tf_transpose(K_reverse(Slice5(x, SliceAll, SliceFrom(-p), 5), 3), tr)
Top2(x, p) == K_reverse(Slice5(x, SliceTo(p), SliceRev, 4), 2)
Bottom2(x, p) == K_reverse(Slice5(x, SliceFrom(-p), SliceRev, 5), 2)
Top3(x, p) == tf_transpose(K_reverse(Slice5(x, SliceAll, SliceTo(p), 4), 3), tr)
Bottom3(x, p) == tf_transpose(Slice5(x, SliceRev, SliceTo(p), 5), tr)
Top4(x, p) == K_reverse(Slice5(x, SliceTo(p), SliceRev, 2), 2)
Bottom4FromSelf(x, p) == Slice5(x, SliceTo(p), SliceAll, 4)
Bottom4(x, p) == Slice5(x, SliceTo(p), SliceAll, 0)
Top5(x, p) == Slice5(x, SliceFrom(-p), SliceAll, 0)
Bottom5(x, p) == K_reverse(Slice5(x, SliceFrom(-p), SliceRev, 2), 2)

\* K.expand_dims(K.concatenate([top, inputs[..., f], bottom], axis=2), -1)
PadHeight(top, x, f, bottom) ==
    K_expand_dims(K_concatenate(<<top, Face(x, f), bottom>>, 2))

\* First pass of call: the list `out` of the six height-padded faces.
HeightPassFaces(x, p) ==
    << PadHeight(Top0(x, p), x, 0, Bottom0(x, p)),
       PadHeight(Top1(x, p), x, 1, Bottom1(x, p)),
       PadHeight(Top2(x, p), x, 2, Bottom2(x, p)),
       PadHeight(Top3(x, p), x, 3, Bottom3(x, p)),
       PadHeight(Top4(x, p), x, 4, Bottom4(x, p)),
       PadHeight(Top5(x, p), x, 5, Bottom5(x, p)) >>

\* out1 = K.concatenate(out, axis=-1)
HeightPassFace0Only(x, p) ==
    K_concatenate([k \in 1..NumFaces |-> PadHeight(Top0(x, p), x, 0, Bottom0(x, p))], -1)
HeightPass(x, p) == K_concatenate(HeightPassFaces(x, p), -1)

\* The strips of the second pass of call for the equatorial faces (periodic
\* lateral boundaries), cut from the height-padded tensor o1.
Left0FromFace1(o1, p) == Slice5(o1, SliceAll, SliceFrom(-p), 1)
Left0(o1, p) == Slice5(o1, SliceAll, SliceFrom(-p), 3)
Right0(o1, p) == Slice5(o1, SliceAll, SliceTo(p), 1)
Left1(o1, p) == Slice5(o1, SliceAll, SliceFrom(-p), 0)
Right1(o1, p) == Slice5(o1, SliceAll, SliceTo(p), 2)
Left2(o1, p) == Slice5(o1, SliceAll, SliceFrom(-p), 1)
Right2Reversed(o1, p) == K_reverse(Slice5(o1, SliceAll, SliceTo(p), 3), 2)
Right2(o1, p) == Slice5(o1, SliceAll, SliceTo(p), 3)
Left3(o1, p) == Slice5(o1, SliceAll, SliceFrom(-p), 2)
Right3(o1, p) == Slice5(o1, SliceAll, SliceTo(p), 0)

\* The strips of the second pass for the polar faces, cut from the list `out`
\* of the width-padded equatorial faces of the same pass: out[k + 1] here is
\* out[k] of the source, a 5-D tensor with one face.
Left4(out, p) ==
    tf_transpose(K_reverse(Slice5(out[4], SliceRange(p, 2 * p), SliceAll, 0), 2), tr)
Right4Unreversed(out, p) ==
    tf_transpose(Slice5(out[2], SliceRange(p, 2 * p), SliceAll, 0), tr)
Right4(out, p) ==
    tf_transpose(Slice5(out[2], SliceRange(p, 2 * p), SliceRev, 0), tr)
Left5(out, p) ==
    tf_transpose(Slice5(out[4], SliceRange(-2 * p, -p), SliceRev, 0), tr)
Right5Unreversed(out, p) ==
    tf_transpose(Slice5(out[2], SliceRange(-2 * p, -p), SliceAll, 0), tr)
Right5(out, p) ==
    tf_transpose(K_reverse(Slice5(out[2], SliceRange(-2 * p, -p), SliceAll, 0), 2), tr)

\* K.expand_dims(K.concatenate([left, out1[..., f], right], axis=3), -1)
PadWidthAlongHeight(left, o1, f, right) ==
    K_expand_dims(K_concatenate(<<left, Face(o1, f), right>>, 2))
PadWidth(left, o1, f, right) ==
    K_expand_dims(K_concatenate(<<left, Face(o1, f), right>>, 3))

\* Second pass of call, faces 0..3.
WidthPassEquatorial(o1, p) ==
    << PadWidth(Left0(o1, p), o1, 0, Right0(o1, p)),
       PadWidth(Left1(o1, p), o1, 1, Right1(o1, p)),
       PadWidth(Left2(o1, p), o1, 2, Right2(o1, p)),
       PadWidth(Left3(o1, p), o1, 3, Right3(o1, p)) >>

\* Second pass of call, faces 4 and 5, appended to the same list.
WidthPassPolar(o1, out, p) ==
    << PadWidth(Left4(out, p), o1, 4, Right4(out, p)),
       PadWidth(Left5(out, p), o1, 5, Right5(out, p)) >>

\* Second pass of call: outputs = K.concatenate(out, axis=-1)
WidthPassOfInput(o1, p) ==
    LET eq == WidthPassEquatorial(inputs, p)
    IN K_concatenate(eq \o WidthPassPolar(inputs, eq, p), -1)
WidthPass(o1, p) ==
    LET eq == WidthPassEquatorial(o1, p)
    IN K_concatenate(eq \o WidthPassPolar(o1, eq, p), -1)

\* ------------------------------------------------------- CubeSphereConv2D
RECURSIVE SumTo(_, _)
\* The sum of terms[1..k].
SumTo(terms, k) == IF k = 0 THEN 0 ELSE SumTo(terms, k - 1) + terms[k]

\* The length of a convolution output along one axis (conv arithmetic of the
\* backend): -1 when a 'valid' window does not fit.
ConvOutputLength(n, k, pad, stride, dilation) ==
    LET eff == (k - 1) * dilation + 1
    IN IF pad = "same" THEN (n + stride - 1) \div stride
       ELSE IF n < eff THEN -1
       ELSE (n - eff + stride) \div stride

\* The zero padding put before the first cell of an axis under 'same'.
ConvPadBefore(n, k, pad, stride, dilation) ==
    LET eff == (k - 1) * dilation + 1
        o == ConvOutputLength(n, k, pad, stride, dilation)
    IN IF pad = "same" THEN Max2((o - 1) * stride + eff - n, 0) \div 2 ELSE 0

\* K.conv2d(x, kernel, strides, padding, 'channels_first', dilation_rate):
\* x is (batch, channels, height, width), kernel (kh, kw, channels, filters).
K_conv2d(x, kernel, strides, pad, dilation_rate) ==
    IF ~x.ok \/ ~kernel.ok THEN ErrT
    ELSE IF x.shape[2] # kernel.shape[3] THEN ErrT
    ELSE
      LET kh == kernel.shape[1]
          kw == kernel.shape[2]
          cin == kernel.shape[3]
          oh == ConvOutputLength(x.shape[3], kh, pad, strides[1], dilation_rate[1])
          ow == ConvOutputLength(x.shape[4], kw, pad, strides[2], dilation_rate[2])
          pt == ConvPadBefore(x.shape[3], kh, pad, strides[1], dilation_rate[1])
          pl == ConvPadBefore(x.shape[4], kw, pad, strides[2], dilation_rate[2])
          s == <<x.shape[1], kernel.shape[4], oh, ow>>
          term(i, t) ==
              LET di == (t - 1) \div (kw * cin)
                  dj == ((t - 1) \div cin) % kw
                  ci == (t - 1) % cin
                  r == i[3] * strides[1] - pt + di * dilation_rate[1]
                  c == i[4] * strides[2] - pl + dj * dilation_rate[2]
              IN IF r < 0 \/ r >= x.shape[3] \/ c < 0 \/ c >= x.shape[4] THEN 0
                 ELSE x.at[<<i[1], ci, r, c>>] * kernel.at[<<di, dj, ci, i[2]>>]
      IN IF oh < 1 \/ ow < 1 THEN ErrT
         ELSE [ok |-> TRUE,
               shape |-> s,
               at |-> [i \in Dom4(s) |->
                         SumTo([t \in 1..(kh * kw * cin) |-> term(i, t)],
                               kh * kw * cin)]]

\* K.bias_add(x, bias, 'channels_first') of a 4-D tensor.
K_bias_add(x, bias) ==
    IF ~x.ok \/ ~bias.ok THEN ErrT
    ELSE IF bias.shape # <<x.shape[2]>> THEN ErrT
    ELSE [ok |-> TRUE,
          shape |-> x.shape,
          at |-> [i \in Dom4(x.shape) |-> x.at[i] + bias.at[<<i[2]>>]]]

\* ------------------------------------------------- floating-point numbers
\* The backend holds tensors of floats of its float type (K.floatx()), here
\* float64: IEEE 754 binary64, every operation rounded to the nearest float,
\* ties to the even one.  The convolutions and bias additions of the model stay
\* within the integers, which float64 holds exactly; exp, sum and division of
\* softmax do not, and are computed as the floats they give: exp(d) is 0 below
\* about -745 and vanishes against 1 below about -37.  The floats met here are
\* never negative.  A float is <<hi, lo, e>> with value (hi * Limb + lo) * 2^e,
\* written in one way only: the significand hi * Limb + lo has Precision bits,
\* or e = MinExp (a subnormal number; zero is <<0, 0, MinExp>>).
LimbBits == 29
Limb == 2^LimbBits
Precision == 53
MinExp == -1074
FloatZero == <<0, 0, MinExp>>

\* Natural numbers below Limb^2 as <<hi, lo>>, lo < Limb.
NatAdd(a, b) == <<a[1] + b[1] + (a[2] + b[2]) \div Limb, (a[2] + b[2]) % Limb>>
NatSub(a, b) ==
    IF a[2] >= b[2] THEN <<a[1] - b[1], a[2] - b[2]>>
    ELSE <<a[1] - b[1] - 1, a[2] + Limb - b[2]>>
NatLess(a, b) == a[1] < b[1] \/ (a[1] = b[1] /\ a[2] < b[2])

\* The number of bits of n: 0 for 0, else k with 2^(k-1) <= n < 2^k.
BitLen(n) ==
    IF n = 0 THEN 0
    ELSE CHOOSE k \in 1..(LimbBits + 1) : 2^(k - 1) <= n /\ n \div 2 < 2^(k - 1)
NatBitLen(a) == IF a[1] > 0 THEN LimbBits + BitLen(a[1]) ELSE BitLen(a[2])

\* floor(a / 2^k), and whether a bit is lost by it.
NatShiftRight(a, k) ==
    IF k >= 2 * LimbBits THEN <<0, 0>>
    ELSE IF k >= LimbBits THEN <<0, a[1] \div 2^(k - LimbBits)>>
    ELSE <<a[1] \div 2^k, (a[2] \div 2^k) + (a[1] % 2^k) * 2^(LimbBits - k)>>
NatLosesBits(a, k) ==
    IF k >= 2 * LimbBits THEN a # <<0, 0>>
    ELSE IF k >= LimbBits THEN a[2] # 0 \/ a[1] % 2^(k - LimbBits) # 0
    ELSE a[2] % 2^k # 0

\* a * 2^k, for a product below Limb^2.
NatShiftLeft(a, k) ==
    IF k >= LimbBits THEN <<a[2] * 2^(k - LimbBits), 0>>
    ELSE <<a[1] * 2^k + a[2] \div 2^(LimbBits - k),
           (a[2] % 2^(LimbBits - k)) * 2^k>>

\* The float nearest to (n + f) * 2^e, ties to even, where n is a natural
\* number <<hi, lo>> and 0 <= f < 1, f > 0 iff sticky (sticky only when at
\* least two bits of n are dropped).
FloatRound(n, e, sticky) ==
    LET drop == Max2(NatBitLen(n) - Precision, MinExp - e)
    IN IF n = <<0, 0>> THEN FloatZero
       ELSE IF drop <= 0
       THEN LET m == NatShiftLeft(n, -drop) IN <<m[1], m[2], e + drop>>
       ELSE LET t == NatShiftRight(n, drop - 1)
                rest == sticky \/ NatLosesBits(n, drop - 1)
                q == NatShiftRight(t, 1)
                r == IF t[2] % 2 = 1 /\ (rest \/ q[2] % 2 = 1)
                     THEN NatAdd(q, <<0, 1>>) ELSE q
            IN IF NatBitLen(r) > Precision
               THEN LET h == NatShiftRight(r, 1) IN <<h[1], h[2], e + drop + 1>>
               ELSE <<r[1], r[2], e + drop>>

\* a + b in floats: the smaller term is aligned to the larger one, three more
\* bits and a sticky bit kept.
FloatAdd(a, b) ==
    IF a[1] = 0 /\ a[2] = 0 THEN b
    ELSE IF b[1] = 0 /\ b[2] = 0 THEN a
    ELSE LET big == IF a[3] >= b[3] THEN a ELSE b
             small == IF a[3] >= b[3] THEN b ELSE a
             shift == big[3] - small[3]
             A == NatShiftLeft(<<big[1], big[2]>>, 3)
             B == NatShiftLeft(<<small[1], small[2]>>, 3)
         IN FloatRound(NatAdd(A, NatShiftRight(B, shift)), big[3] - 3,
                       NatLosesBits(B, shift))

RECURSIVE DivBits(_, _, _)
\* n >= 1 more bits of a long division by d that has left the remainder
\* r < d: <<the remainder left, the n bits as a number>>, the first half of
\* the bits and then, unless the division has come out even, the second half.
DivBits(r, d, n) ==
    IF n = 1
    THEN LET twice == NatAdd(r, r)
         IN IF NatLess(twice, d) THEN <<twice, <<0, 0>>>>
            ELSE <<NatSub(twice, d), <<0, 1>>>>
    ELSE LET h == n \div 2
             first == DivBits(r, d, n - h)
             rest == DivBits(first[1], d, h)
         IN IF first[1] = <<0, 0>> THEN <<first[1], NatShiftLeft(first[2], h)>>
            ELSE <<rest[1], NatAdd(NatShiftLeft(first[2], h), rest[2])>>

\* a / b in floats, b a normal number: Precision + 2 bits of the quotient of
\* the significands after its leading bit, and the remainder as sticky bit.
FloatDiv(a, b) ==
    IF a[1] = 0 /\ a[2] = 0 THEN FloatZero
    ELSE LET up == Precision - NatBitLen(<<a[1], a[2]>>)
             ma == NatShiftLeft(<<a[1], a[2]>>, up)
             mb == <<b[1], b[2]>>
             ge == ~NatLess(ma, mb)
             bits == DivBits(IF ge THEN NatSub(ma, mb) ELSE ma, mb, Precision + 2)
             q == IF ge THEN NatAdd(NatShiftLeft(<<0, 1>>, Precision + 2), bits[2])
                  ELSE bits[2]
         IN FloatRound(q, a[3] - up - b[3] - (Precision + 2), bits[1] # <<0, 0>>)

\* exp(-k) in floats for k = 0, 1, ... (entry k + 1), down to the last one
\* that is not zero.
ExpTable ==
    << <<8388608, 0, -52>>, <<12343985, 372043576, -54>>,
       <<9082197, 62882252, -55>>, <<13364614, 214872239, -57>>,
       <<9833133, 404831476, -58>>, <<14469631, 873334, -60>>,
       <<10646159, 286512342, -61>>, <<15666012, 472164751, -63>>,
       <<11526408, 68167597, -64>>, <<8480657, 86398042, -65>>,
       <<12479437, 358907035, -67>>, <<9181857, 59729764, -68>>,
       <<13511265, 457424011, -70>>, <<9941033, 462953880, -71>>,
       <<14628407, 498079250, -73>>, <<10762981, 36170808, -74>>,
       <<15837917, 451839435, -76>>, <<11652888, 391800989, -77>>,
       <<8573716, 208248737, -78>>, <<12616375, 522999666, -80>>,
       <<9282610, 368276071, -81>>, <<13659526, 282964972, -83>>,
       <<10050117, 521239970, -84>>, <<14788927, 70515377, -86>>,
       <<10881084, 266936970, -87>>, <<16011709, 73384750, -89>>,
       <<11780757, 117472834, -90>>, <<8667796, 410418842, -91>>,
       <<12754816, 493704122, -93>>, <<9384469, 451642528, -94>>,
       <<13809414, 44859253, -96>>, <<10160399, 38615994, -97>>,
       <<14951207, 392258664, -99>>, <<11000483, 477584808, -100>>,
       <<16187407, 248916640, -102>>, <<11910028, 442101984, -103>>,
       <<8762909, 266199140, -104>>, <<12894776, 533356629, -106>>,
       <<9487446, 380515075, -107>>, <<13960946, 200497976, -109>>,
       <<10271890, 161159716, -110>>, <<15115269, 28788768, -112>>,
       <<11121193, 249755484, -113>>, <<16365033, 401878846, -115>>,
       <<12040718, 504842476, -116>>, <<8859065, 488633661, -117>>,
       <<13036272, 464559486, -119>>, <<9591553, 297049050, -120>>,
       <<14114141, 238698933, -122>>, <<10384604, 501714821, -123>>,
       <<15281130, 343803967, -125>>, <<11243227, 322608481, -126>>,
       <<16544609, 78993710, -128>>, <<12172843, 72422581, -129>>,
       <<8956277, 246889480, -130>>, <<13179321, 208117876, -132>>,
       <<9696802, 415653436, -133>>, <<14269017, 291473345, -135>>,
       <<10498556, 214481816, -136>>, <<15448812, 131761485, -138>>,
       <<11366600, 446257242, -139>>, <<16726155, 25356748, -141>>,
       <<12306417, 77011020, -142>>, <<9054555, 388214482, -143>>,
       <<13323939, 320988364, -145>>, <<9803206, 486912792, -146>>,
       <<14425593, 61450731, -148>>, <<10613758, 143360086, -149>>,
       <<15618333, 450978852, -151>>, <<11491327, 456440369, -152>>,
       <<8454846, 287595755, -153>>, <<12441456, 469739531, -155>>,
       <<9153912, 217452229, -156>>, <<13470144, 386755582, -158>>,
       <<9910778, 335259716, -159>>, <<14583886, 433671130, -161>>,
       <<10730224, 138461149, -162>>, <<15789715, 329943626, -164>>,
       <<11617423, 275461200, -165>>, <<8547622, 289745177, -166>>,
       <<12577978, 221720133, -168>>, <<9254359, 182144977, -169>>,
       <<13617954, 90475423, -171>>, <<10019530, 396656098, -172>>,
       <<14743917, 255552070, -174>>, <<10847968, 130727832, -175>>,
       <<15962977, 526700798, -177>>, <<11744902, 450008605, -178>>,
       <<8641416, 314318846, -179>>, <<12715998, 9428106, -181>>,
       <<9355908, 262677610, -182>>, <<13767385, 293530317, -184>>,
       <<10129476, 108799619, -185>>, <<14905704, 96190464, -187>>,
       <<10967004, 132821234, -188>>, <<16138141, 308932520, -190>>,
       <<11873781, 4633646, -191>>, <<8736239, 453169728, -192>>,
       <<12855532, 68258056, -194>>, <<9458571, 509913533, -195>>,
       <<13918456, 350400349, -197>>, <<10240628, 59435624, -198>>,
       <<15069266, 100097713, -200>>, <<11087346, 240017437, -201>>,
       <<16315227, 139632179, -203>>, <<12004073, 200816807, -204>>,
       <<8832103, 327090397, -205>>, <<12996597, 193575030, -207>>,
       <<9562361, 509097120, -208>>, <<14071185, 257284930, -210>>,
       <<10352999, 376581702, -211>>, <<15234622, 525302740, -213>>,
       <<11209009, 94243132, -214>>, <<16494256, 67825654, -216>>,
       <<12135795, 242982197, -217>>, <<8929019, 160277009, -218>>,
       <<13139210, 278648077, -220>>, <<9667290, 454377400, -221>>,
       <<14225590, 116382401, -223>>, <<10466604, 192503267, -224>>,
       <<15401794, 133984890, -226>>, <<11332006, 495604851, -227>>,
       <<16675249, 266790864, -229>>, <<12268962, 500715288, -230>>,
       <<9026998, 244188460, -231>>, <<13283388, 315724564, -233>>,
       <<9773371, 75856665, -234>>, <<14381689, 137053172, -236>>,
       <<10581455, 328923915, -237>>, <<15570799, 488700540, -239>>,
       <<11456354, 182090040, -240>>, <<8429114, 249275143, -241>>,
       <<12403591, 362282429, -243>>, <<9126052, 401413555, -244>>,
       <<13429148, 397116273, -246>>, <<9880615, 251002315, -247>>,
       <<14539501, 100124707, -249>>, <<10697567, 76665129, -250>>,
       <<15741660, 48076192, -252>>, <<11582066, 125471071, -253>>,
       <<8521608, 57624675, -254>>, <<12539697, 383128654, -256>>,
       <<9226193, 523288101, -257>>, <<13576508, 179426511, -259>>,
       <<9989036, 321100172, -260>>, <<14699044, 432822158, -262>>,
       <<10814952, 417746423, -263>>, <<15914395, 73675604, -265>>,
       <<11709157, 311026763, -266>>, <<8615116, 372452257, -267>>,
       <<12677297, 139419333, -269>>, <<9327434, 33778363, -270>>,
       <<13725484, 495272908, -272>>, <<10098647, 239554873, -273>>,
       <<14860339, 62486566, -275>>, <<10933626, 268173235, -276>>,
       <<16089025, 336333717, -278>>, <<11837643, 275370683, -279>>,
       <<8709651, 193616024, -280>>, <<12816406, 376560357, -282>>,
       <<9429785, 37727361, -283>>, <<13876096, 133184200, -285>>,
       <<10209461, 35844662, -286>>, <<15023403, 175886280, -288>>,
       <<11053602, 236927280, -289>>, <<16265572, 191213976, -291>>,
       <<11967539, 181160855, -292>>, <<8805223, 197197075, -293>>,
       <<12957042, 325891503, -295>>, <<9533259, 100400411, -296>>,
       <<14028360, 133702078, -298>>, <<10321490, 353227062, -299>>,
       <<15188256, 462348947, -301>>, <<11174894, 479386690, -302>>,
       <<16444056, 189751005, -304>>, <<12098860, 281207365, -305>>,
       <<8901844, 51864863, -306>>, <<13099221, 390100407, -308>>,
       <<9637868, 395748249, -309>>, <<14182295, 32431827, -311>>,
       <<10434749, 302099157, -312>>, <<15354919, 188745186, -314>>,
       <<11297518, 161368804, -315>>, <<16624498, 470382395, -317>>,
       <<12231622, 382590695, -318>>, <<8999525, 30217784, -319>>,
       <<13242960, 533680872, -321>>, <<9743626, 96582323, -322>>,
       <<14337919, 8685564, -324>>, <<10549251, 145205332, -325>>,
       <<15523410, 348227708, -327>>, <<11421487, 144408455, -328>>,
       <<8403460, 379953996, -329>>, <<12365841, 384532740, -331>>,
       <<9098277, 472648093, -332>>, <<13388277, 284015663, -334>>,
       <<9850544, 59726033, -335>>, <<14495250, 349783651, -337>>,
       <<10665009, 224758001, -338>>, <<15693750, 440275103, -340>>,
       <<11546816, 302337274, -341>>, <<8495672, 455867500, -342>>,
       <<12501533, 279407885, -344>>, <<9198114, 177473085, -345>>,
       <<13535188, 343083918, -347>>, <<9958635, 142465582, -348>>,
       <<14654308, 378498062, -350>>, <<10782037, 426438703, -351>>,
       <<15865960, 82587752, -353>>, <<11673521, 59098716, -354>>,
       <<8588896, 453633632, -355>>, <<12638714, 153765179, -357>>,
       <<9299046, 159783545, -358>>, <<13683711, 441084190, -360>>,
       <<10067912, 277106064, -361>>, <<14815112, 64863304, -363>>,
       <<10900350, 180279682, -364>>, <<16040059, 86126918, -366>>,
       <<11801616, 315265, -367>>, <<8683143, 428654896, -368>>,
       <<12777400, 189361726, -370>>, <<9401085, 430978607, -371>>,
       <<13833864, 411295103, -373>>, <<10178388, 471794649, -374>>,
       <<14977680, 27387766, -376>>, <<11019961, 72167880, -377>>,
       <<16216068, 308942586, -379>>, <<11931116, 263640644, -380>>,
       <<8778424, 501744341, -381>>, <<12917608, 127336500, -383>>,
       <<9504244, 536405334, -384>>, <<13985665, 191206463, -386>>,
       <<10290077, 274481895, -387>>, <<15142031, 460536516, -389>>,
       <<11140884, 234133234, -390>>, <<16394009, 194370273, -392>>,
       <<12062038, 2864438, -393>>, <<8874751, 322972411, -394>>,
       <<13059354, 343008361, -396>>, <<9608536, 93006730, -397>>,
       <<14139131, 360533687, -399>>, <<10402991, 384375846, -400>>,
       <<15308187, 62227559, -402>>, <<11263134, 345259597, -403>>,
       <<16573902, 382984190, -405>>, <<12194396, 73252889, -406>>,
       <<8972135, 146134399, -407>>, <<13202656, 236331103, -409>>,
       <<9713971, 400720107, -410>>, <<14294281, 531761141, -412>>,
       <<10517144, 505308963, -413>>, <<15476165, 330050779, -415>>,
       <<11386726, 169476567, -416>>, <<16755770, 29597837, -418>>,
       <<12328206, 348191399, -419>>, <<9070587, 292613133, -420>>,
       <<13347530, 380456604, -422>>, <<9820564, 148304045, -423>>,
       <<14451134, 425052718, -425>>, <<10632550, 420339878, -426>>,
       <<15645987, 193824214, -428>>, <<11511674, 93361418, -429>>,
       <<8469816, 281365197, -430>>, <<12463485, 257063442, -432>>,
       <<9170120, 78378796, -433>>, <<13493994, 375342517, -435>>,
       <<9928326, 245979562, -436>>, <<14609708, 406304326, -438>>,
       <<10749222, 529493660, -439>>, <<15817672, 311840629, -441>>,
       <<11637993, 53338521, -442>>, <<8562756, 427076785, -443>>,
       <<12600248, 396882363, -445>>, <<9270744, 499093272, -446>>,
       <<13642065, 459468330, -448>>, <<10037271, 68145509, -449>>,
       <<14770022, 414596615, -451>>, <<10867175, 240027977, -452>>,
       <<15991241, 387806265, -454>>, <<11765698, 73501816, -455>>,
       <<8656716, 489194114, -456>>, <<12738512, 385837972, -458>>,
       <<9372473, 472771773, -459>>, <<13791761, 437208972, -461>>,
       <<10147411, 138553816, -462>>, <<14932095, 500273538, -464>>,
       <<10986422, 114805283, -465>>, <<16166715, 245890169, -467>>,
       <<11894804, 266576824, -468>>, <<8751708, 33318175, -469>>,
       <<12878293, 474950833, -471>>, <<9475319, 61774637, -472>>,
       <<13943100, 216833386, -474>>, <<10258759, 520526446, -475>>,
       <<15095947, 289292346, -477>>, <<11106977, 262578382, -478>>,
       <<16344114, 368916962, -480>>, <<12025327, 298022299, -481>>,
       <<8847741, 301589743, -482>>, <<13019608, 475383415, -484>>,
       <<9579292, 473582071, -485>>, <<14096099, 348515485, -487>>,
       <<10371330, 280923282, -488>>, <<15261597, 58199715, -490>>,
       <<11228855, 338898566, -491>>, <<16523460, 289090453, -493>>,
       <<12157282, 460755288, -494>>, <<8944828, 455316413, -495>>,
       <<13162474, 296375539, -497>>, <<9684407, 303481005, -498>>,
       <<14250777, 414873968, -500>>, <<10485136, 175344679, -501>>,
       <<15429064, 198508677, -503>>, <<11352071, 83904648, -504>>,
       <<16704774, 199957404, -506>>, <<12290686, 65532420, -507>>,
       <<9042981, 260058525, -508>>, <<13306907, 483191501, -510>>,
       <<9790675, 367195130, -511>>, <<14407153, 105879341, -513>>,
       <<10600190, 501505130, -514>>, <<15598369, 144218340, -516>>,
       <<11476638, 396992973, -517>>, <<8444038, 478886685, -518>>,
       <<12425553, 126309403, -520>>, <<9142211, 86368556, -521>>,
       <<13452926, 70724453, -523>>, <<9898109, 480459956, -524>>,
       <<14565244, 293773723, -526>>, <<10716508, 26358145, -527>>,
       <<15769531, 520572913, -529>>, <<11602573, 116530320, -530>>,
       <<8536696, 162393576, -531>>, <<12561900, 140031506, -533>>,
       <<9242529, 373667706, -534>>, <<13600546, 342692744, -536>>,
       <<10006722, 533573937, -537>>, <<14725070, 349907198, -539>>,
       <<10834101, 281939777, -540>>, <<15942572, 460996526, -542>>,
       <<11729889, 315769867, -543>>, <<8630370, 243414774, -544>>,
       <<12699743, 235144322, -546>>, <<9343949, 20388866, -547>>,
       <<13749787, 913747, -549>>, <<10116527, 492216661, -550>>,
       <<14886650, 293425440, -552>>, <<10952985, 197545335, -553>>,
       <<16117512, 292751316, -555>>, <<11858603, 8842978, -556>>,
       <<8725072, 269265945, -557>>, <<12839099, 98890321, -559>>,
       <<9446481, 142837003, -560>>, <<13900664, 535137214, -562>>,
       <<10227537, 398276019, -563>>, <<15050003, 255615990, -565>>,
       <<11073173, 395592239, -566>>, <<16294371, 464513429, -568>>,
       <<11988728, 446696099, -569>>, <<8820813, 389860066, -570>>,
       <<12979984, 52100447, -572>>, <<9550138, 317865153, -573>>,
       <<14053198, 318601814, -575>>, <<10339765, 370684441, -576>>,
       <<15215148, 481138802, -578>>, <<11194680, 508170845, -579>>,
       <<16473171, 473963490, -581>>, <<12120282, 286232802, -582>>,
       <<8917605, 284686825, -583>>, <<13122414, 513384501, -585>>,
       <<9654933, 194268012, -586>>, <<14207405, 514764211, -588>>,
       <<10453225, 69393408, -589>>, <<15382106, 255528468, -591>>,
       <<11317521, 251701587, -592>>, <<16653933, 479746245, -594>>,
       <<12253279, 423142983, -595>>, <<9015459, 237283577, -596>>,
       <<13266408, 389591339, -598>>, <<9760878, 30442277, -599>>,
       <<14363305, 246622503, -601>>, <<10567929, 306840881, -602>>,
       <<15550896, 53935566, -604>>, <<11441709, 501602170, -605>>,
       <<8418339, 382980670, -606>>, <<12387736, 234808364, -608>>,
       <<9114387, 62230667, -609>>, <<13411982, 298119065, -611>>,
       <<9867985, 158313814, -612>>, <<14520915, 355987010, -614>>,
       <<10683892, 364460817, -615>>, <<15721537, 468656334, -617>>,
       <<11567261, 71997608, -618>>, <<8510715, 66463607, -619>>,
       <<12523668, 265669912, -621>>, <<9214400, 179638473, -622>>,
       <<13559153, 420527986, -624>>, <<9976267, 447273596, -625>>,
       <<14680255, 183442082, -627>>, <<10801128, 141040370, -628>>,
       <<15894052, 62934477, -630>>, <<11694190, 11633311, -631>>,
       <<8604104, 96770068, -632>>, <<12661092, 80768181, -634>>,
       <<9315511, 5288079, -635>>, <<13707939, 503649271, -637>>,
       <<10085738, 304993395, -638>>, <<14841343, 253900977, -640>>,
       <<10919650, 153603034, -641>>, <<16068459, 204098933, -643>>,
       <<11822511, 383605768, -644>>, <<8698518, 2986045, -645>>,
       <<12800023, 414262172, -647>>, <<9417731, 98876593, -648>>,
       <<13858358, 397576669, -650>>, <<10196410, 288863173, -651>>,
       <<15004199, 130335695, -653>>, <<11039472, 464559654, -654>>,
       <<16244780, 233039482, -656>>, <<11952241, 266329205, -657>>,
       <<8793967, 453465715, -658>>, <<12940479, 486121361, -660>>,
       <<9521073, 17303531, -661>>, <<14010428, 56799625, -663>>,
       <<10308296, 496212036, -664>>, <<15168842, 25616516, -666>>,
       <<11160610, 145740137, -667>>, <<16423036, 149889545, -669>>,
       <<12083394, 438867404, -670>>, <<8890465, 35324999, -671>>,
       <<13082477, 150667400, -673>>, <<9625548, 462932940, -674>>,
       <<14164166, 78219737, -676>>, <<10421411, 28280174, -677>>,
       <<15335291, 266881350, -679>>, <<11283076, 500531464, -680>>,
       <<16603248, 78498076, -682>>, <<12215987, 160696217, -683>>,
       <<8988021, 87006684, -684>>, <<13226032, 434514709, -686>>,
       <<9731171, 63154951, -687>>, <<14319591, 91696135, -689>>,
       <<10535766, 212296424, -690>>, <<15503567, 223047784, -692>>,
       <<11406887, 232962025, -693>>, <<8392718, 402329013, -694>>,
       <<12350034, 393927860, -696>>, <<9086647, 404048028, -697>>,
       <<13371163, 316426413, -699>>, <<9837952, 203019642, -700>>,
       <<14476721, 371829042, -702>>, <<10651376, 307372420, -703>>,
       <<15673689, 453564361, -705>>, <<11532056, 280472500, -706>>,
       <<8484813, 9691196, -707>>, <<12485553, 46224319, -709>>,
       <<9186356, 313565536, -710>>, <<13517886, 486504002, -712>>,
       <<9945905, 194203222, -713>>, <<14635576, 228530713, -715>>,
       <<10768255, 189728046, -716>>, <<15845679, 25337562, -718>>,
       <<11658599, 56762382, -719>>, <<8577917, 455113158, -720>>,
       <<12622558, 266785510, -722>>, <<9287159, 285618813, -723>>,
       <<13666220, 126067134, -725>>, <<10055042, 497046715, -726>>,
       <<14796174, 155705738, -728>>, <<10886416, 353571897, -729>>,
       <<16019555, 272123791, -731>>, <<11786530, 137097782, -732>>,
       <<8672044, 175764875, -733>>, <<12761067, 152414052, -735>>,
       <<9389068, 323357179, -736>>, <<13816181, 129996509, -738>>,
       <<10165378, 37023540, -739>>, <<14958534, 221848100, -741>>,
       <<11005874, 301378650, -742>>, <<16195339, 500871901, -744>>,
       <<11915865, 111791498, -745>>, <<8767203, 358497816, -746>>,
       <<12901095, 506655046, -748>>, <<9492095, 500658267, -749>>,
       <<13967787, 423508974, -751>>, <<10276923, 500537966, -752>>,
       <<15122676, 71264246, -754>>, <<11126643, 155401688, -755>>,
       <<16373053, 140531033, -757>>, <<12046619, 197790036, -758>>,
       <<8863407, 108723575, -759>>, <<13042661, 82754530, -761>>,
       <<9596253, 426033222, -762>>, <<14121057, 500170491, -764>>,
       <<10389693, 430185360, -765>>, <<15288618, 535922301, -767>>,
       <<11248737, 121711942, -768>>, <<16552716, 354002075, -770>>,
       <<12178808, 165916765, -771>>, <<8960666, 209234965, -772>>,
       <<13185779, 416564109, -774>>, <<9701554, 317153149, -775>>,
       <<14276009, 496792555, -777>>, <<10503701, 57439900, -778>>,
       <<15456382, 415476662, -780>>, <<11372170, 491117632, -781>>,
       <<16734351, 281394693, -783>>, <<12312447, 415609523, -784>>,
       <<9058992, 436584112, -785>>, <<13330468, 458909951, -787>>,
       <<9808010, 464771442, -788>>, <<14432662, 120857634, -790>>,
       <<10618959, 229771569, -791>>, <<15625987, 236628147, -793>>,
       <<11496959, 29481361, -794>>, <<8458989, 399745989, -795>>,
       <<12447553, 365314596, -797>>, <<9158398, 98694067, -798>>,
       <<13476745, 334779124, -800>>, <<9915635, 159783892, -801>>,
       <<14591033, 262311967, -803>>, <<10735482, 264030756, -804>>,
       <<15797453, 106917994, -806>>, <<11623116, 273627448, -807>>,
       <<8551811, 114083215, -808>>, <<12584142, 64117214, -810>>,
       <<9258894, 183091279, -811>>, <<13624627, 270679680, -813>>,
       <<10024440, 378393998, -814>>, <<14751142, 310404029, -816>>,
       <<10853284, 94809674, -817>>, <<15970800, 252890425, -819>>,
       <<11750658, 163583158, -820>>, <<8645651, 118679222, -821>>,
       <<12722229, 192770478, -823>>, <<9360493, 136437165, -824>>,
       <<13774132, 58883744, -826>>, <<10134440, 24836209, -827>>,
       <<14913008, 302374285, -829>>, <<10972378, 275329775, -830>>,
       <<16146049, 484527576, -832>>, <<11879599, 338506776, -833>>,
       <<8740520, 508325954, -834>>, <<12861831, 454122841, -836>>,
       <<9463207, 12777107, -837>>, <<13925277, 132295567, -839>>,
       <<10245646, 227171857, -840>>, <<15076650, 387803625, -842>>,
       <<11092779, 367726145, -843>>, <<16323222, 196569651, -845>>,
       <<12009955, 453304367, -846>>, <<8836431, 369916302, -847>>,
       <<13002966, 111040654, -849>>, <<9567047, 474314203, -850>>,
       <<14078080, 491848280, -852>>, <<10358073, 43159582, -853>>,
       <<15242088, 292975173, -855>>, <<11214502, 17696328, -856>>,
       <<16502338, 517333228, -858>>, <<12141742, 253353585, -859>>,
       <<8933394, 467521168, -860>>, <<13145649, 134954983, -862>>,
       <<9672028, 107836942, -863>>, <<14232561, 170784064, -865>>,
       <<10471733, 219198631, -866>>, <<15409341, 395862365, -868>>,
       <<11337560, 29159081, -869>>, <<16683421, 15093248, -871>>,
       <<12274975, 112367333, -872>>, <<9031422, 21894417, -873>>,
       <<13289897, 522581891, -875>>, <<9778160, 257348234, -876>>,
       <<14388736, 457043332, -878>>, <<10586640, 506830509, -879>>,
       <<15578430, 116776141, -881>>, <<11461968, 217697733, -882>>,
       <<8433245, 34078121, -883>>, <<12409669, 496526506, -885>>,
       <<9130524, 469307706, -886>>, <<13435729, 297009069, -888>>,
       <<9885457, 193026703, -889>>, <<14546626, 62602992, -891>>,
       <<10702809, 200475490, -892>>, <<15749374, 67122338, -894>>,
       <<11587741, 485239184, -895>>, <<8525784, 17200594, -896>>,
       <<12545842, 354881911, -898>>, <<9230715, 93587914, -899>>,
       <<13583161, 193148951, -901>>, <<9993931, 333260433, -902>>,
       <<14706247, 493374961, -904>>, <<10820252, 285791376, -905>>,
       <<15922193, 440076692, -907>>, <<11714895, 284130447, -908>>,
       <<8619338, 236949593, -909>>, <<12683509, 341605541, -911>>,
       <<9332004, 469322816, -912>>, <<13732210, 511365681, -914>>,
       <<10103596, 97980458, -915>>, <<14867621, 144828568, -917>>,
       <<10938984, 219332721, -918>>, <<16096909, 475015778, -920>>,
       <<11843444, 228709240, -921>>, <<8713919, 232984198, -922>>,
       <<12822687, 132673062, -924>>, <<9434406, 20173170, -925>>,
       <<13882896, 44856082, -927>>, <<10214464, 56970523, -928>>,
       <<15030765, 208786223, -930>>, <<11059019, 76928898, -931>>,
       <<16273543, 69445892, -933>>, <<11973403, 485659619, -934>>,
       <<8809538, 147476782, -935>>, <<12963392, 37524984, -937>>,
       <<9537930, 462095046, -938>>, <<14035234, 375752074, -940>>,
       <<10326548, 320089515, -941>>, <<15195699, 379685090, -943>>,
       <<11180371, 17717411, -944>>, <<16452114, 317204555, -946>>,
       <<12104789, 238120049, -947>>, <<8906206, 188962402, -948>>,
       <<13105640, 463255682, -950>>, <<9642591, 361668741, -951>>,
       <<14189244, 507559128, -953>>, <<10439863, 1244898, -954>>,
       <<15362443, 466432284, -956>>, <<11303054, 285058049, -957>>,
       <<16632645, 288580220, -959>>, <<12237616, 371027706, -960>>,
       <<9003935, 96196092, -961>>, <<13249450, 305072233, -963>>,
       <<9748400, 505596317, -964>>, <<14344945, 87541902, -966>>,
       <<10554420, 440471781, -967>>, <<15531017, 393660959, -969>>,
       <<11427084, 133715238, -970>>, <<8407578, 394884307, -971>>,
       <<12371901, 250893596, -973>>, <<9102736, 212630882, -974>>,
       <<13394838, 168603206, -976>>, <<9855371, 143402282, -977>>,
       <<14502353, 481638965, -979>>, <<10670235, 372957681, -980>>,
       <<15701441, 203000190, -982>>, <<11552474, 515146925, -983>>,
       <<8499836, 34640152, -984>>, <<12507659, 411168685, -986>>,
       <<9202621, 413420247, -987>>, <<13541821, 223510234, -989>>,
       <<9963515, 209464872, -990>>, <<14661489, 480681268, -992>>,
       <<10787321, 224882259, -993>>, <<15873735, 54358776, -995>>,
       <<11679241, 320352770, -996>>, <<8593105, 399326259, -997>>,
       <<12644907, 405782933, -999>>, <<9303603, 106170555, -1000>>,
       <<13690417, 204595238, -1002>>, <<10072846, 102605239, -1003>>,
       <<14822372, 59687307, -1005>>, <<10905691, 503686598, -1006>>,
       <<16047919, 227223140, -1008>>, <<11807399, 138925467, -1009>>,
       <<8687398, 473524424, -1010>>, <<12783661, 420791916, -1012>>,
       <<9405692, 379185402, -1013>>, <<13840643, 486661639, -1015>>,
       <<10183376, 371265599, -1016>>, <<14985019, 379075058, -1018>>,
       <<11025361, 188352155, -1019>>, <<16224015, 48227643, -1021>>,
       <<11936963, 112532514, -1022>>, <<8782726, 381000868, -1023>>,
       <<12923938, 201680253, -1025>>, <<9508902, 244138286, -1026>>,
       <<13992518, 475033280, -1028>>, <<10295120, 29987310, -1029>>,
       <<15149452, 27790821, -1031>>, <<11146343, 488398622, -1032>>,
       <<16402043, 39964772, -1034>>, <<12067948, 472763137, -1035>>,
       <<8879100, 311682522, -1036>>, <<13065754, 128160132, -1038>>,
       <<9613244, 394946464, -1039>>, <<14146060, 217311247, -1041>>,
       <<10408089, 318349022, -1042>>, <<15315688, 393257024, -1044>>,
       <<11268654, 12957085, -1045>>, <<16582024, 311713494, -1047>>,
       <<12200371, 468373191, -1048>>, <<8976531, 522383017, -1049>>,
       <<13209126, 141497797, -1051>>, <<9718731, 524202415, -1052>>,
       <<14301286, 404530502, -1054>>, <<10522298, 406850381, -1055>>,
       <<15483749, 293915364, -1057>>, <<11392306, 140400514, -1058>>,
       <<16763981, 23924155, -1060>>, <<12334247, 513766348, -1061>>,
       <<9075032, 263794815, -1062>>, <<13354071, 282464486, -1064>>,
       <<9825376, 397710300, -1065>>, <<14458216, 224845565, -1067>>,
       <<10637761, 82126943, -1068>>, <<15653654, 275460121, -1070>>,
       <<11517315, 187437029, -1071>>, <<8473967, 36971864, -1072>>,
       <<12469593, 42518955, -1074>>, <<4587306, 501228344, -1074>>,
       <<1687575, 489206723, -1074>>, <<620824, 259391039, -1074>>,
       <<228388, 302756564, -1074>>, <<84019, 245493779, -1074>>,
       <<30909, 16636129, -1074>>, <<11370, 427911202, -1074>>,
       <<4183, 44272106, -1074>>, <<1538, 467098602, -1074>>,
       <<566, 63699713, -1074>>, <<208, 141418555, -1074>>,
       <<76, 330620053, -1074>>, <<28, 99529387, -1074>>,
       <<10, 198011286, -1074>>, <<3, 437269256, -1074>>,
       <<1, 216502771, -1074>>, <<0, 277150689, -1074>>,
       <<0, 101958041, -1074>>, <<0, 37508267, -1074>>,
       <<0, 13798520, -1074>>, <<0, 5076192, -1074>>, <<0, 1867427, -1074>>,
       <<0, 686988, -1074>>, <<0, 252729, -1074>>, <<0, 92974, -1074>>,
       <<0, 34203, -1074>>, <<0, 12583, -1074>>, <<0, 4629, -1074>>,
       <<0, 1703, -1074>>, <<0, 626, -1074>>, <<0, 230, -1074>>,
       <<0, 85, -1074>>, <<0, 31, -1074>>, <<0, 11, -1074>>, <<0, 4, -1074>>,
       <<0, 2, -1074>>, <<0, 1, -1074>> >>

\* K.exp(d) for an integer d <= 0.
K_exp(d) == IF -d >= Len(ExpTable) THEN FloatZero ELSE ExpTable[1 - d]

RECURSIVE FloatSumTo(_, _)
\* K.sum over terms[1..k], added from the first to the last.
FloatSumTo(terms, k) ==
    IF k = 0 THEN FloatZero ELSE FloatAdd(FloatSumTo(terms, k - 1), terms[k])

\* The cell at index i of softmax(x, axis=-1) for a tensor x of more than two
\* dimensions: e = K.exp(x - K.max(x, axis)); s = K.sum(e, axis); return e / s
SoftmaxCell(x, i) ==
    LET last == Len(x.shape)
        n == x.shape[last]
        v == [j \in 1..n |-> x.at[[i EXCEPT ![last] = j - 1]]]
        m == CHOOSE a \in {v[j] : j \in 1..n} : \A j \in 1..n : a >= v[j]
        s == FloatSumTo([j \in 1..n |-> K_exp(v[j] - m)], n)
    IN FloatDiv(K_exp(x.at[i] - m), s)

\* self.activation(outputs): linear (no activation) and relu act on each cell
\* alone; softmax normalises along the last axis of the tensor it is given.
Activate(name, x) ==
    IF ~x.ok THEN ErrT
    ELSE IF name = "relu"
    THEN [ok |-> TRUE, shape |-> x.shape,
          at |-> [i \in DomOf(x.shape) |-> Max2(x.at[i], 0)]]
    ELSE IF name = "softmax"
    THEN [ok |-> TRUE, shape |-> x.shape,
          at |-> [i \in DomOf(x.shape) |-> SoftmaxCell(x, i)]]
    ELSE x

\* K.conv2d(x, kernel, strides=self.strides, padding=self.padding, ...)
LayerConv(L, x, kernel) ==
    K_conv2d(x, kernel, L.strides, L.padding, L.dilation_rate)

\* if self.use_bias: outputs[f] = K.bias_add(outputs[f], bias, ...)
LayerBias(L, y, bias) == IF L.use_bias THEN K_bias_add(y, bias) ELSE y

\* outputs[f] for an equatorial face f in 0..3.
EquatorialPolarKernel(L, x, f) ==
    K_expand_dims(LayerBias(L, LayerConv(L, Face(x, f), L.polar_kernel),
                            L.polar_bias))
EquatorialOutput(L, x, f) ==
    K_expand_dims(LayerBias(L, LayerConv(L, Face(x, f), L.equatorial_kernel),
                            L.equatorial_bias))

\* outputs[4], the south pole face.
SouthPoleFromFace5(L, x) ==
    K_expand_dims(LayerBias(L, LayerConv(L, Face(x, 5), L.polar_kernel),
                            L.polar_bias))
SouthPoleOutput(L, x) ==
    K_expand_dims(LayerBias(L, LayerConv(L, Face(x, 4), L.polar_kernel),
                            L.polar_bias))

\* The kernel and the bias of the north pole face.
NorthKernelEquatorial(L) ==
    IF L.independent_north_pole THEN L.north_pole_kernel ELSE L.equatorial_kernel
NorthKernel(L) ==
    IF L.independent_north_pole THEN L.north_pole_kernel ELSE L.polar_kernel
NorthBias(L) ==
    IF L.independent_north_pole THEN L.north_pole_bias ELSE L.polar_bias

\* outputs[5], the north pole face: K.reverse(., -2) before the convolution
\* and after the bias when self.flip_north_pole.
NorthPoleFlipLastAxis(L, x) ==
    LET xin == IF L.flip_north_pole THEN K_reverse(Face(x, 5), -1) ELSE Face(x, 5)
        y == LayerBias(L, LayerConv(L, xin, NorthKernel(L)), NorthBias(L))
    IN K_expand_dims(IF L.flip_north_pole THEN K_reverse(y, -1) ELSE y)
NorthPoleNoFlipBack(L, x) ==
    LET xin == IF L.flip_north_pole THEN K_reverse(Face(x, 5), -2) ELSE Face(x, 5)
    IN K_expand_dims(LayerBias(L, LayerConv(L, xin, NorthKernel(L)), NorthBias(L)))
NorthPoleOutput(L, x) ==
    LET xin == IF L.flip_north_pole THEN K_reverse(Face(x, 5), -2) ELSE Face(x, 5)
        y == LayerBias(L, LayerConv(L, xin, NorthKernel(L)), NorthBias(L))
    IN K_expand_dims(IF L.flip_north_pole THEN K_reverse(y, -2) ELSE y)

\* The entry outputs[f] of call once the block of face f has run.
FaceOutput(L, x, f) ==
    IF f < 4 THEN EquatorialOutput(L, x, f)
    ELSE IF f = 4 THEN SouthPoleOutput(L, x)
    ELSE NorthPoleOutput(L, x)

\* outputs = K.concatenate(outputs, axis=-1)
ConcatFaces(outs) == K_concatenate(outs, -1)

\* What call returns for input x: the six blocks in program order, the
\* concatenation and the activation.
CallResult(L, x) ==
    Activate(L.activation, ConcatFaces([k \in 1..NumFaces |-> FaceOutput(L, x, k - 1)]))

\* conv_utils.conv_output_length(input_length, filter_size, padding, stride,
\* dilation)
conv_output_lengthShort(input_length, filter_size, pad, stride, dilation) ==
    LET dilated_filter_size == (filter_size - 1) * dilation + 1
        output_length == IF pad = "same" THEN input_length
                         ELSE input_length - dilated_filter_size
    IN (output_length + stride - 1) \div stride
conv_output_length(input_length, filter_size, pad, stride, dilation) ==
    LET dilated_filter_size == (filter_size - 1) * dilation + 1
        output_length == IF pad = "same" THEN input_length
                         ELSE input_length - dilated_filter_size + 1
    IN (output_length + stride - 1) \div stride

\* compute_output_shape(input_shape) for data_format channels_first: the
\* space is input_shape[2:-1].
compute_output_shapeSwapped(L, input_shape) ==
    LET n == Len(input_shape)
        space == SubSeq(input_shape, 3, n - 1)
        new_space == [i \in 1..Len(space) |->
                        conv_output_length(space[i], L.kernel_size[3 - i], L.padding,
                                           L.strides[3 - i], L.dilation_rate[3 - i])]
    IN <<input_shape[1], L.filters>> \o new_space \o <<6>>
compute_output_shape(L, input_shape) ==
    LET n == Len(input_shape)
        space == SubSeq(input_shape, 3, n - 1)
        new_space == [i \in 1..Len(space) |->
                        conv_output_length(space[i], L.kernel_size[i], L.padding,
                                           L.strides[i], L.dilation_rate[i])]
    IN <<input_shape[1], L.filters>> \o new_space \o <<6>>

\* ------------------------------------------------------------ input tensors
\* A tensor whose cell at index i holds a number that identifies i.
CellId(s, i) ==
    ((((i[1] * s[2] + i[2]) * s[3] + i[3]) * s[4] + i[4]) * s[5]) + i[5]

TaggedTensor(s) ==
    [ok |-> TRUE, shape |-> s, at |-> [i \in Dom5(s) |-> CellId(s, i)]]

\* A tensor in which every cell of face f holds f.
FaceIndexTensor(s) ==
    [ok |-> TRUE, shape |-> s, at |-> [i \in Dom5(s) |-> i[5]]]

InputShapes ==
    { <<b, c, h, w, NumFaces>> :
        b \in 1..MaxBatch, c \in 1..MaxChan, h \in 1..MaxN, w \in 1..MaxN }

PadInputs ==
    { TaggedTensor(s) : s \in InputShapes } \cup
    { FaceIndexTensor(s) : s \in InputShapes }

\* Weights: a kernel of shape (kh, kw, channels, filters) whose weight varies
\* along the named axis only, and a bias of length filters.
PatternWeight(pat, di, dj) ==
    CASE pat = "ones" -> 1
      [] pat = "rows" -> 1 - 3 * di
      [] pat = "cols" -> 1 - 3 * dj

KernelTensor(pat, s) ==
    [ok |-> TRUE, shape |-> s,
     at |-> [i \in Dom4(s) |-> PatternWeight(pat, i[1], i[2]) * (1 + i[3]) + i[4]]]

BiasTensor(base, n) ==
    [ok |-> TRUE, shape |-> <<n>>, at |-> [i \in {<<o>> : o \in 0..(n - 1)} |-> base + i[1]]]

\* The patterns of the equatorial, polar and north pole kernels.
WeightSets == { <<"ones", "rows", "cols">>, <<"cols", "ones", "rows">> }

\* The tagged tensor with the cells of face g (if any: g = -1 for none)
\* replaced by negative numbers.
ConvInput(s, g) ==
    [ok |-> TRUE, shape |-> s,
     at |-> [i \in Dom5(s) |->
               IF i[5] = g THEN -1 - CellId(s, i) ELSE CellId(s, i)]]

\* Inputs of the convolution: one batch, c channels, square faces.
ConvShapes(c) == { <<1, c, ConvSide, ConvSide, NumFaces>> }

ConvInputs(c) == { ConvInput(s, g) : s \in ConvShapes(c), g \in {-1, 5} }

\* Kernel size, strides, padding mode and dilation rate of the layer; a
\* dilation rate != 1 goes with strides of 1 only.
ConvGeometries ==
    { [kernel_size |-> <<2, 2>>, strides |-> <<1, 1>>, padding |-> "valid",
       dilation_rate |-> <<1, 1>>],
      [kernel_size |-> <<2, 2>>, strides |-> <<2, 2>>, padding |-> "same",
       dilation_rate |-> <<1, 1>>],
      [kernel_size |-> <<1, 2>>, strides |-> <<1, 1>>, padding |-> "same",
       dilation_rate |-> <<1, 2>>] }

\* CubeSphereConv2D.__init__: the attributes of a new instance.
NewLayer(filters, geo, activation, use_bias, flip, independent) ==
    [filters |-> filters,
     kernel_size |-> geo.kernel_size,
     strides |-> geo.strides,
     padding |-> geo.padding,
     data_format |-> "channels_first",
     dilation_rate |-> geo.dilation_rate,
     activation |-> activation,
     use_bias |-> use_bias,
     flip_north_pole |-> flip,
     independent_north_pole |-> independent,
     kernel_initializer |-> "VarianceScaling",
     bias_initializer |-> "Zeros",
     kernel_regularizer |-> "None",
     bias_regularizer |-> "None",
     activity_regularizer |-> "None",
     kernel_constraint |-> "None",
     bias_constraint |-> "None",
     name |-> "cube_sphere_conv2d_1",
     trainable |-> TRUE,
     equatorial_kernel |-> NoneT,
     equatorial_bias |-> NoneT,
     polar_kernel |-> NoneT,
     polar_bias |-> NoneT,
     north_pole_kernel |-> NoneT,
     north_pole_bias |-> NoneT,
     weight_names |-> <<>>,
     input_dim |-> 0,
     built |-> FALSE]

NoFaces == [k \in 1..NumFaces |-> NoneT]

\* ------------------------------------------------------------ constructors
\* str.lower() on the strings the constructors are given.
Lower(v) ==
    CASE v = "CHANNELS_FIRST" -> "channels_first"
      [] v = "Channels_Last" -> "channels_last"
      [] v = "SAME" -> "same"
      [] v = "Valid" -> "valid"
      [] OTHER -> v

\* What a normalisation that raises ValueError yields.
ValueError == "ValueError"

\* K.normalize_data_format(value): None stands for the configured default.
normalize_data_formatAnyToFirst(value, default) == "channels_first"
normalize_data_format(value, default) ==
    LET data_format == Lower(IF value = "None" THEN default ELSE value)
    IN IF data_format \in {"channels_first", "channels_last"}
       THEN data_format ELSE ValueError

\* conv_utils.normalize_padding(value)
normalize_padding(value) ==
    IF Lower(value) \in {"valid", "same", "causal"} THEN Lower(value) ELSE ValueError

\* conv_utils.normalize_tuple(value, n, name): an integer is given as <<k>>, a
\* tuple as it is; <<>> when it raises.
normalize_tuple(value, n) ==
    IF Len(value) = 1 /\ n # 1 THEN [k \in 1..n |-> value[1]]
    ELSE IF Len(value) = n THEN value
    ELSE <<>>

\* activations.get(identifier) and activations.serialize(activation): a
\* function is named by its __name__; None gives the linear function.
activations_get(identifier) ==
    IF identifier = "None" THEN "linear"
    ELSE IF identifier \in {"linear", "relu", "softmax"} THEN identifier
    ELSE ValueError
activations_serialize(activation) == activation

\* initializers.get(identifier) and initializers.serialize(initializer): a
\* name gives an instance of its class, a serialized instance gives it back;
\* an instance is named by its class.
initializers_get(identifier) ==
    CASE identifier = "glorot_uniform" -> "VarianceScaling"
      [] identifier = "zeros" -> "Zeros"
      [] identifier = "ones" -> "Ones"
      [] identifier \in {"VarianceScaling", "Zeros", "Ones"} -> identifier
      [] OTHER -> ValueError
initializers_serialize(initializer) == initializer

\* regularizers.get / constraints.get and their serialize: None stays None.
regularizers_get(identifier) ==
    CASE identifier = "None" -> "None"
      [] identifier = "l2" -> "L1L2"
      [] identifier = "L1L2" -> "L1L2"
      [] OTHER -> ValueError
regularizers_serializeDropped(regularizer) == "None"
regularizers_serialize(regularizer) == regularizer
constraints_get(identifier) ==
    CASE identifier = "None" -> "None"
      [] identifier = "non_neg" -> "NonNeg"
      [] identifier = "NonNeg" -> "NonNeg"
      [] OTHER -> ValueError
constraints_serialize(constraint) == constraint

\* Layer.__init__(**kwargs): a layer without a name gets a generated one.
LayerName(name) == IF name = "None" THEN "cube_sphere_conv2d_1" ELSE name

\* CubeSphereConv2D.__init__(**a): the attributes of the new instance, NoneT
\* when the constructor raises.
CubeSphereConv2D_init(a, default_format) ==
    LET kernel_size == normalize_tuple(a.kernel_size, 2)
        strides == normalize_tuple(a.strides, 2)
        pad == normalize_padding(a.padding)
        data_format == normalize_data_format(a.data_format, default_format)
        dilation_rate == normalize_tuple(a.dilation_rate, 2)
        activation == activations_get(a.activation)
        specs == { initializers_get(a.kernel_initializer),
                   initializers_get(a.bias_initializer),
                   regularizers_get(a.kernel_regularizer),
                   regularizers_get(a.bias_regularizer),
                   regularizers_get(a.activity_regularizer),
                   constraints_get(a.kernel_constraint),
                   constraints_get(a.bias_constraint) }
    IN IF \/ kernel_size = <<>> \/ strides = <<>> \/ dilation_rate = <<>>
          \/ pad = ValueError
          \/ data_format # "channels_first"
          \/ activation = ValueError
          \/ ValueError \in specs
       THEN NoneT
       ELSE [NewLayer(a.filters,
                      [kernel_size |-> kernel_size, strides |-> strides,
                       padding |-> pad, dilation_rate |-> dilation_rate],
                      activation, a.use_bias, a.flip_north_pole,
                      a.independent_north_pole)
             EXCEPT !.kernel_initializer = initializers_get(a.kernel_initializer),
                    !.bias_initializer = initializers_get(a.bias_initializer),
                    !.kernel_regularizer = regularizers_get(a.kernel_regularizer),
                    !.bias_regularizer = regularizers_get(a.bias_regularizer),
                    !.activity_regularizer = regularizers_get(a.activity_regularizer),
                    !.kernel_constraint = constraints_get(a.kernel_constraint),
                    !.bias_constraint = constraints_get(a.bias_constraint),
                    !.name = LayerName(a.name),
                    !.trainable = a.trainable]

\* CubeSphereConv2D.get_config(): the base configuration of Layer and the
\* arguments of the constructor.
get_config(L) ==
    [name |-> L.name,
     trainable |-> L.trainable,
     filters |-> L.filters,
     kernel_size |-> L.kernel_size,
     strides |-> L.strides,
     padding |-> L.padding,
     data_format |-> L.data_format,
     dilation_rate |-> L.dilation_rate,
     activation |-> activations_serialize(L.activation),
     use_bias |-> L.use_bias,
     flip_north_pole |-> L.flip_north_pole,
     independent_north_pole |-> L.independent_north_pole,
     kernel_initializer |-> initializers_serialize(L.kernel_initializer),
     bias_initializer |-> initializers_serialize(L.bias_initializer),
     kernel_regularizer |-> regularizers_serialize(L.kernel_regularizer),
     bias_regularizer |-> regularizers_serialize(L.bias_regularizer),
     activity_regularizer |-> regularizers_serialize(L.activity_regularizer),
     kernel_constraint |-> constraints_serialize(L.kernel_constraint),
     bias_constraint |-> constraints_serialize(L.bias_constraint)]

\* ZeroPadding3D.__init__(padding): an integer p is given as << <<p>> >>, a
\* tuple of three integers or of three pairs entry by entry; <<>> when it
\* raises.
ZeroPadding3D_padding(arg) ==
    IF Len(arg) = 1 THEN [k \in 1..3 |-> <<arg[1][1], arg[1][1]>>]
    ELSE IF Len(arg) # 3 THEN <<>>
    ELSE IF \E k \in 1..3 : normalize_tuple(arg[k], 2) = <<>> THEN <<>>
    ELSE [k \in 1..3 |-> normalize_tuple(arg[k], 2)]

\* CubeSpherePadding2D.__init__(padding, data_format): the padding it stores,
\* <<>> when the constructor raises.
CubeSpherePadding2D_initKeepThird(a, default_format) ==
    LET data_format == normalize_data_format(a.data_format, default_format)
        pad == ZeroPadding3D_padding(a.padding)
    IN IF data_format # "channels_first" THEN <<>>
       ELSE IF pad = <<>> THEN <<>>
       ELSE IF pad[1] # pad[2] THEN <<>>
       ELSE IF pad[1][1] # pad[1][2] THEN <<>>
       ELSE <<pad[1], pad[2], pad[3]>>
CubeSpherePadding2D_init(a, default_format) ==
    LET data_format == normalize_data_format(a.data_format, default_format)
        pad == ZeroPadding3D_padding(a.padding)
    IN IF data_format # "channels_first" THEN <<>>
       ELSE IF pad = <<>> THEN <<>>
       ELSE IF pad[1] # pad[2] THEN <<>>
       ELSE IF pad[1][1] # pad[1][2] THEN <<>>
       ELSE <<pad[1], pad[2], <<0, 0>> >>

\* The data formats a constructor is given.
DataFormats ==
    {"channels_first", "CHANNELS_FIRST", "channels_last", "Channels_Last",
     "None", "nchw"}

\* Keyword arguments of CubeSphereConv2D(...).
ConvKwargs ==
    { [name |-> kw[1], trainable |-> kw[2],
       filters |-> Filters,
       kernel_size |-> geo[1], strides |-> geo[2], padding |-> geo[3],
       dilation_rate |-> geo[4],
       data_format |-> df,
       activation |-> act,
       use_bias |-> ub, flip_north_pole |-> fl, independent_north_pole |-> ind,
       kernel_initializer |-> ini[1], bias_initializer |-> ini[2],
       kernel_regularizer |-> reg[1], bias_regularizer |-> "None",
       activity_regularizer |-> "None",
       kernel_constraint |-> reg[2], bias_constraint |-> "None"] :
        kw \in { <<"None", TRUE>>, <<"north", FALSE>> },
        geo \in { << <<2, 2>>, <<1, 1>>, "valid", <<1, 1>> >>,
                  << <<3>>, <<2>>, "SAME", <<1>> >>,
                  << <<1, 2>>, <<1>>, "same", <<1, 2>> >>,
                  << <<2, 2, 2>>, <<1>>, "valid", <<1>> >> },
        df \in DataFormats,
        act \in {"None", "relu", "linear", "softmax"},
        ub \in BOOLEAN, fl \in BOOLEAN, ind \in BOOLEAN,
        ini \in { <<"glorot_uniform", "zeros">>, <<"Ones", "ones">> },
        reg \in { <<"None", "None">>, <<"l2", "non_neg">> } }

\* Arguments of CubeSpherePadding2D(...).
PadKwargs ==
    { [padding |-> pd, data_format |-> df] :
        pd \in { << <<p>> >> : p \in 0..MaxPad } \cup
               { << <<1>>, <<1>>, <<1>> >>, << <<2>>, <<2>>, <<5>> >>,
                 << <<1>>, <<2>>, <<1>> >>,
                 << <<2, 2>>, <<2, 2>>, <<0, 0>> >>,
                 << <<1, 2>>, <<1, 2>>, <<0, 0>> >>,
                 << <<1, 2>>, <<2, 1>>, <<0, 0>> >>,
                 << <<1, 1>>, <<1, 2>>, <<0, 0>> >>,
                 << <<1, 1>>, <<2, 2>>, <<0, 0>> >>,
                 << <<2, 2>>, <<2, 2>>, <<3, 4>> >>,
                 << <<1>>, <<1>> >> },
        df \in DataFormats }

\* ------------------------------------------------------------------ actions
\* Neither a callback nor a RowConnected2D instance takes part.
UtilIdle ==
    /\ early = NoneT
    /\ saver = NoneT
    /\ rowc = NoneT

\* No CubeSphereConv2D instance takes part.
ConvIdle ==
    /\ layer = NoneT
    /\ conv_in = NoneT
    /\ face_out = NoFaces
    /\ conv_out = NoneT
    /\ conv_ret = NoneT
    /\ conv_pc = "idle"
    /\ conv_args = NoneT
    /\ out_shape = <<>>

\* No CubeSpherePadding2D.call takes part.
PadIdle ==
    /\ padding = << <<1, 1>>, <<1, 1>>, <<0, 0>> >>
    /\ inputs = NoneT
    /\ out1 = NoneT
    /\ outputs = NoneT
    /\ pc = "idle"
    /\ pad_args = NoneT

\* CubeSpherePadding2D.__init__ has stored ((p, p), (p, p), (0, 0)).
Init ==
    /\ padding \in { << <<p, p>>, <<p, p>>, <<0, 0>> >> : p \in 0..MaxPad }
    /\ inputs = NoneT
    /\ out1 = NoneT
    /\ outputs = NoneT
    /\ pc = "idle"
    /\ pad_args = NoneT
    /\ image_data_format = "channels_last"
    /\ ConvIdle
    /\ UtilIdle

\* call(inputs), first pass.
CallHeightPass(x) ==
    /\ pc = "idle"
    /\ inputs' = x
    /\ out1' = HeightPass(x, HaloWidth)
    /\ outputs' = NoneT
    /\ pc' = IF out1'.ok THEN "height_padded" ELSE "raised"
    /\ UNCHANGED <<padding, pad_args>>
    /\ UNCHANGED convVars

\* call(inputs), second pass and return.
CallWidthPassInPlace ==
    /\ pc = "height_padded"
    /\ outputs' = WidthPass(out1, HaloWidth)
    /\ inputs' = outputs'
    /\ pc' = IF outputs'.ok THEN "returned" ELSE "raised"
    /\ UNCHANGED <<padding, out1, pad_args>>
    /\ UNCHANGED convVars
CallWidthPass ==
    /\ pc = "height_padded"
    /\ outputs' = WidthPass(out1, HaloWidth)
    /\ pc' = IF outputs'.ok THEN "returned" ELSE "raised"
    /\ UNCHANGED <<padding, inputs, out1, pad_args>>
    /\ UNCHANGED convVars

Next ==
    \/ \E x \in PadInputs : CallHeightPass(x)
    \/ CallWidthPass

Spec == Init /\ [][Next]_vars

\* CubeSphereConv2D.__init__ has run: activation=None is stored as linear.
InitConv ==
    /\ layer \in { NewLayer(n, geo, activations_get(act), ub, fl, ind) :
                     n \in {Filters}, geo \in ConvGeometries,
                     act \in {"None", "relu", "softmax"},
                     ub \in BOOLEAN, fl \in BOOLEAN, ind \in BOOLEAN }
    /\ conv_in = NoneT
    /\ face_out = NoFaces
    /\ conv_out = NoneT
    /\ conv_ret = NoneT
    /\ conv_pc = "constructed"
    /\ conv_args = NoneT
    /\ out_shape = <<>>
    /\ image_data_format = "channels_last"
    /\ PadIdle
    /\ UtilIdle

\* An unknown dimension of an input shape (None).
NoneDim == -1

\* The `name` arguments build passes to add_weight, in the order of the calls.
WeightNames(L) ==
    <<"equatorial_kernel", "polar_kernel">>
    \o (IF L.independent_north_pole THEN <<"polar_kernel">> ELSE <<>>)
    \o (IF L.use_bias THEN <<"equatorial_bias", "polar_bias">> ELSE <<>>)
    \o (IF L.use_bias /\ L.independent_north_pole THEN <<"polar_bias">> ELSE <<>>)

\* build past the check of the channel dimension: the weights of shape
\* kernel_size + (input_dim, filters) and (filters,), holding the values ws
\* names (their initial values, or those training has put there).
BuiltLayer(L, c, ws) ==
    LET kernel_shape == L.kernel_size \o <<c, L.filters>>
    IN [L EXCEPT
          !.weight_names = WeightNames(L),
          !.equatorial_kernel = KernelTensor(ws[1], kernel_shape),
          !.polar_kernel = KernelTensor(ws[2], kernel_shape),
          !.north_pole_kernel =
              IF L.independent_north_pole
              THEN KernelTensor(ws[3], kernel_shape) ELSE NoneT,
          !.equatorial_bias =
              IF L.use_bias THEN BiasTensor(1, L.filters) ELSE NoneT,
          !.polar_bias =
              IF L.use_bias THEN BiasTensor(10, L.filters) ELSE NoneT,
          !.north_pole_bias =
              IF L.use_bias /\ L.independent_north_pole
              THEN BiasTensor(20, L.filters) ELSE NoneT,
          !.input_dim = c,
          !.built = TRUE]

\* build(input_shape) with input_shape[1] = c.
BuildCheckingLast(c, ws) ==
    /\ conv_pc \in {"constructed", "build_raised"}
    /\ layer' = BuiltLayer(layer, c, ws)
    /\ conv_pc' = IF c = NoneDim THEN "build_raised" ELSE "built"
    /\ UNCHANGED <<conv_in, face_out, conv_out, conv_ret, conv_args, out_shape>>
    /\ UNCHANGED padVars
Build(c, ws) ==
    /\ conv_pc \in {"constructed", "build_raised"}
    /\ IF c = NoneDim
       THEN /\ layer' = layer
            /\ conv_pc' = "build_raised"
       ELSE /\ layer' = BuiltLayer(layer, c, ws)
            /\ conv_pc' = "built"
    /\ UNCHANGED <<conv_in, face_out, conv_out, conv_ret, conv_args, out_shape>>
    /\ UNCHANGED padVars

\* call(inputs) is entered: outputs = [].
Call(x) ==
    /\ conv_pc \in {"built", "returned", "raised"}
    /\ x.shape[2] = layer.input_dim
    /\ conv_in' = x
    /\ face_out' = NoFaces
    /\ conv_out' = NoneT
    /\ conv_ret' = NoneT
    /\ conv_pc' = "running"
    /\ UNCHANGED <<layer, conv_args, out_shape>>
    /\ UNCHANGED padVars

\* The block of face f is evaluated; the six blocks read disjoint slices and
\* the backend may evaluate them in any order.
EvalFace(f) ==
    /\ conv_pc = "running"
    /\ face_out[f + 1] = NoneT
    /\ face_out' = [face_out EXCEPT ![f + 1] = FaceOutput(layer, conv_in, f)]
    /\ conv_pc' = IF face_out'[f + 1].ok THEN "running" ELSE "raised"
    /\ UNCHANGED <<layer, conv_in, conv_out, conv_ret, conv_args, out_shape>>
    /\ UNCHANGED padVars

\* outputs = K.concatenate(outputs, axis=-1); the activation; return.
ReturnClearingBias ==
    /\ conv_pc = "running"
    /\ \A k \in 1..NumFaces : face_out[k].ok
    /\ conv_out' = ConcatFaces(face_out)
    /\ conv_ret' = Activate(layer.activation, conv_out')
    /\ conv_pc' = IF conv_ret'.ok THEN "returned" ELSE "raised"
    /\ layer' = [layer EXCEPT !.polar_bias = NoneT]
    /\ UNCHANGED <<conv_in, face_out, conv_args, out_shape>>
    /\ UNCHANGED padVars
Return ==
    /\ conv_pc = "running"
    /\ \A k \in 1..NumFaces : face_out[k].ok
    /\ conv_out' = ConcatFaces(face_out)
    /\ conv_ret' = Activate(layer.activation, conv_out')
    /\ conv_pc' = IF conv_ret'.ok THEN "returned" ELSE "raised"
    /\ UNCHANGED <<layer, conv_in, face_out, conv_args, out_shape>>
    /\ UNCHANGED padVars

NextConv ==
    \/ \E c \in (1..MaxConvChan) \cup {NoneDim}, ws \in WeightSets : Build(c, ws)
    \/ \E x \in ConvInputs(layer.input_dim) : Call(x)
    \/ \E f \in 0..(NumFaces - 1) : EvalFace(f)
    \/ Return

SpecConv == InitConv /\ [][NextConv]_vars

\* ------------------------------------------- construction of the layers
\* Nothing has been constructed yet: one of the two classes is about to be.
InitLayers ==
    /\ image_data_format \in {"channels_first", "channels_last"}
    /\ UtilIdle
    /\ inputs = NoneT /\ out1 = NoneT /\ outputs = NoneT
    /\ conv_in = NoneT /\ face_out = NoFaces /\ conv_out = NoneT /\ conv_ret = NoneT
    /\ pad_args = NoneT /\ conv_args = NoneT /\ out_shape = <<>>
    /\ padding = <<>> /\ layer = NoneT
    /\ \/ pc = "new" /\ conv_pc = "idle"
       \/ pc = "off" /\ conv_pc = "new"

\* CubeSphereConv2D(**a)
Construct(a) ==
    /\ conv_pc = "new"
    /\ conv_args' = a
    /\ layer' = CubeSphereConv2D_init(a, image_data_format)
    /\ conv_pc' = IF layer' = NoneT THEN "init_raised" ELSE "constructed"
    /\ UNCHANGED <<conv_in, face_out, conv_out, conv_ret, out_shape, image_data_format, early, saver, rowc>>
    /\ UNCHANGED <<padding, inputs, out1, outputs, pc, pad_args>>

\* CubeSphereConv2D.from_config(layer.get_config()): cls(**config)
FromConfig ==
    /\ conv_pc = "constructed"
    /\ conv_args' = get_config(layer)
    /\ layer' = CubeSphereConv2D_init(conv_args', image_data_format)
    /\ conv_pc' = IF layer' = NoneT THEN "init_raised" ELSE "reconstructed"
    /\ UNCHANGED <<conv_in, face_out, conv_out, conv_ret, out_shape, image_data_format, early, saver, rowc>>
    /\ UNCHANGED <<padding, inputs, out1, outputs, pc, pad_args>>

\* CubeSpherePadding2D(**a)
PadConstruct(a) ==
    /\ pc = "new"
    /\ pad_args' = a
    /\ padding' = CubeSpherePadding2D_init(a, image_data_format)
    /\ pc' = IF padding' = <<>> THEN "init_raised" ELSE "idle"
    /\ UNCHANGED <<inputs, out1, outputs, image_data_format, early, saver, rowc>>
    /\ UNCHANGED <<layer, conv_in, face_out, conv_out, conv_ret, conv_pc, conv_args, out_shape>>

\* CubeSpherePadding2D(padding=self.padding, data_format='channels_first')
\* with the padding a constructed instance has stored.
PadReconstruct ==
    /\ pc = "idle"
    /\ pad_args' = [padding |-> padding, data_format |-> "channels_first"]
    /\ padding' = CubeSpherePadding2D_init(pad_args', image_data_format)
    /\ pc' = IF padding' = <<>> THEN "init_raised" ELSE "reconstructed"
    /\ UNCHANGED <<inputs, out1, outputs, image_data_format, early, saver, rowc>>
    /\ UNCHANGED <<layer, conv_in, face_out, conv_out, conv_ret, conv_pc, conv_args, out_shape>>

NextLayers ==
    \/ \E a \in ConvKwargs : Construct(a)
    \/ FromConfig
    \/ \E a \in PadKwargs : PadConstruct(a)
    \/ PadReconstruct

SpecLayers == InitLayers /\ [][NextLayers]_vars

\* ------------------------------------------------- shapes through the layers
\* Kernel size, strides, padding mode and dilation rate of the layers whose
\* output shape is examined; strides != 1 go with a dilation rate of 1.
ShapeGeometries ==
    { [kernel_size |-> ks, strides |-> sd[1], padding |-> pd, dilation_rate |-> sd[2]] :
        ks \in (1..MaxKernel) \X (1..MaxKernel),
        sd \in { << <<1, 1>>, <<1, 1>> >>, << <<2, 2>>, <<1, 1>> >>,
                 << <<1, 2>>, <<1, 1>> >>, << <<2, 1>>, <<1, 1>> >>,
                 << <<1, 1>>, <<2, 2>> >>, << <<1, 1>>, <<1, 2>> >> },
        pd \in {"valid", "same"} }

\* A built layer with bias and the north pole flipped.
ShapeLayer(n, geo, c) ==
    BuiltLayer(NewLayer(n, geo, "linear", TRUE, TRUE, FALSE), c, <<"ones", "rows", "cols">>)

\* The kernel that undoes a halo of width p: (2p + 1, 2p + 1), valid padding,
\* strides and dilation rate 1.
HaloGeometry(p) ==
    [kernel_size |-> <<2 * p + 1, 2 * p + 1>>, strides |-> <<1, 1>>,
     padding |-> "valid", dilation_rate |-> <<1, 1>>]

\* The numbers of faces on the last axis of the tensors given to the layers.
FaceCounts == {NumFaces - 1, NumFaces, NumFaces + 1}

\* Tensors given to the convolution alone: one batch, c channels, faces of any
\* height and width.
ShapeInputs(c) ==
    { ConvInput(<<1, c, h, w, n>>, -1) :
        h \in 1..ShapeSide, w \in 1..ShapeSide, n \in FaceCounts }

\* Tensors given to the padding in front of the convolution: square faces; the
\* large face comes with one batch and six faces.
PipeInputs(c) ==
    { TaggedTensor(<<b, c, side, side, n>>) :
        b \in 1..MaxBatch, side \in 1..ShapeSide, n \in FaceCounts } \cup
    { TaggedTensor(<<1, c, BigSide, BigSide, NumFaces>>) }

\* Either a built convolution alone, or a padding of width p in front of the
\* built convolution that undoes it.
InitShape ==
    /\ image_data_format = "channels_last"
    /\ UtilIdle
    /\ inputs = NoneT /\ out1 = NoneT /\ outputs = NoneT /\ pad_args = NoneT
    /\ conv_in = NoneT /\ face_out = NoFaces /\ conv_out = NoneT /\ conv_ret = NoneT
    /\ conv_args = NoneT /\ out_shape = <<>>
    /\ conv_pc = "built"
    /\ \/ /\ pc = "off"
          /\ padding = <<>>
          /\ layer \in { ShapeLayer(Filters, geo, c) :
                           geo \in ShapeGeometries, c \in 1..MaxConvChan }
       \/ /\ pc = "idle"
          /\ \E p \in 0..MaxHalo :
               /\ padding = << <<p, p>>, <<p, p>>, <<0, 0>> >>
               /\ layer \in { ShapeLayer(n, HaloGeometry(p), c) :
                                n \in {1, PipeFilters}, c \in 1..MaxConvChan }

\* compute_output_shape(K.int_shape(x)) for the tensor x about to be passed to
\* call: a tensor of its own when there is no padding, the padded tensor
\* otherwise.
InferShape(x) ==
    /\ conv_pc = "built"
    /\ pc \in {"off", "returned"}
    /\ x.shape[2] = layer.input_dim
    /\ conv_in' = x
    /\ out_shape' = compute_output_shape(layer, x.shape)
    /\ conv_pc' = "inferred"
    /\ UNCHANGED <<layer, face_out, conv_out, conv_ret, conv_args, image_data_format, early, saver, rowc>>
    /\ UNCHANGED <<padding, inputs, out1, outputs, pc, pad_args>>

\* call(conv_in), from `outputs = []` to the return: the blocks of the faces
\* run in the order 0..5 and the first one that raises ends the call, the
\* later blocks never run.
ConvCall ==
    /\ conv_pc = "inferred"
    /\ face_out' = [k \in 1..NumFaces |->
                      IF \A j \in 1..(k - 1) : FaceOutput(layer, conv_in, j - 1).ok
                      THEN FaceOutput(layer, conv_in, k - 1)
                      ELSE NoneT]
    /\ conv_out' = IF \A k \in 1..NumFaces : face_out'[k].ok
                   THEN ConcatFaces(face_out') ELSE NoneT
    /\ conv_ret' = IF conv_out'.ok THEN Activate(layer.activation, conv_out') ELSE NoneT
    /\ conv_pc' = IF conv_ret'.ok THEN "returned" ELSE "raised"
    /\ UNCHANGED <<layer, conv_in, conv_args, out_shape, image_data_format, early, saver, rowc>>
    /\ UNCHANGED <<padding, inputs, out1, outputs, pc, pad_args>>

NextShape ==
    \/ \E x \in PipeInputs(layer.input_dim) : CallHeightPass(x)
    \/ CallWidthPass
    \/ pc = "off" /\ \E x \in ShapeInputs(layer.input_dim) : InferShape(x)
    \/ pc = "returned" /\ InferShape(outputs)
    \/ ConvCall

SpecShape == InitShape /\ [][NextShape]_vars

\* ---------------------------------------------------------------- callbacks
\* max_epochs=None, a monitored value that is missing from logs
\* (get_monitor_value returns None), best_weights = None, interval=None.
NoMax == -1
NoValue == -1
NoBest == -1
NoInterval == 0

\* np.Inf next to the monitored values 1..MaxLoss and min_delta <= 1.
PosInf == MaxLoss + 2

\* EarlyStoppingMin(min_epochs, max_epochs, patience=, min_delta=, mode=,
\* restore_best_weights=) attached to a model: EarlyStopping.__init__ keeps
\* min_delta with the sign of the comparison; `best` is set by on_train_begin.
\* stop_training and weights are the attributes of the model, epoch the epoch
\* the training loop is in, logs the monitored value of the last on_epoch_end.
NewEarlyStoppingMin(min_epochs, max_epochs, patience, min_delta, mode, restore) ==
    [min_epochs |-> min_epochs,
     max_epochs |-> max_epochs,
     patience |-> patience,
     min_delta |-> IF mode = "max" THEN min_delta ELSE -min_delta,
     mode |-> mode,
     restore_best_weights |-> restore,
     best |-> 0,
     wait |-> 0,
     stopped_epoch |-> 0,
     best_weights |-> NoBest,
     stop_training |-> FALSE,
     weights |-> 0,
     epoch |-> 0,
     logs |-> NoValue,
     pc |-> "constructed"]

\* The weights of the model once epoch `epoch` has been trained.
TrainedWeights(epoch) == epoch + 1

\* self.monitor_op: np.less, or np.greater in mode 'max'.
monitor_op(e, a, b) == IF e.mode = "max" THEN a > b ELSE a < b

\* on_epoch_end, the block on the monitored value.
PatienceStep(e, epoch, current) ==
    IF monitor_op(e, current - e.min_delta, e.best)
    THEN [e EXCEPT !.best = current,
                   !.wait = 0,
                   !.best_weights = IF e.restore_best_weights THEN e.weights ELSE @]
    ELSE IF e.wait + 1 >= e.patience
         THEN [e EXCEPT !.wait = e.wait + 1,
                        !.stopped_epoch = epoch,
                        !.stop_training = TRUE,
                        !.weights = IF e.restore_best_weights THEN e.best_weights ELSE @]
         ELSE [e EXCEPT !.wait = e.wait + 1]

\* on_epoch_end, the block on max_epochs.
MaxStep(e, epoch) ==
    IF e.max_epochs # NoMax /\ epoch >= e.max_epochs
    THEN [e EXCEPT !.stopped_epoch = epoch,
                   !.stop_training = TRUE,
                   !.weights = IF e.restore_best_weights THEN e.best_weights ELSE @]
    ELSE e

\* EarlyStoppingMin.on_epoch_end(epoch, logs) with logs[monitor] = current.
EarlyStoppingMin_on_epoch_endFromStart(e, epoch, current) ==
    IF current = NoValue THEN e
    ELSE MaxStep(PatienceStep(e, epoch, current), epoch)
EarlyStoppingMin_on_epoch_end(e, epoch, current) ==
    IF epoch < e.min_epochs THEN e
    ELSE IF current = NoValue THEN e
    ELSE MaxStep(PatienceStep(e, epoch, current), epoch)

\* SaveWeightsOnEpoch(weights_file, interval) attached to the same model;
\* saves lists the files the last on_epoch_end asked save_weights to write,
\* propagated tells whether an OSError left that on_epoch_end.
NewSaveWeightsOnEpoch(interval) ==
    [weights_file |-> "weights",
     interval |-> interval,
     saves |-> <<>>,
     propagated |-> FALSE,
     pc |-> "waiting"]

\* SaveWeightsOnEpoch.on_epoch_end(epoch); locked: save_weights raises OSError.
SaveWeightsOnEpoch_on_epoch_end(s, epoch, locked) ==
    IF s.interval # NoInterval /\ epoch % s.interval = 0
    THEN [s EXCEPT !.saves = << <<s.weights_file, epoch>> >>,
                   !.propagated = locked,
                   !.pc = IF locked THEN "raised" ELSE "done"]
    ELSE [s EXCEPT !.saves = << <<s.weights_file>> >>,
                   !.propagated = FALSE,
                   !.pc = "done"]

\* Both callbacks have been constructed and given to fit().
InitTrain ==
    /\ early \in { NewEarlyStoppingMin(m, x, pt, d, mode, r) :
                      m \in 0..MaxMinEpochs,
                      x \in {NoMax} \cup (1..MaxMaxEpochs),
                      pt \in 0..MaxPatience, d \in {0, 1},
                      mode \in {"min", "max"}, r \in BOOLEAN }
    /\ saver \in { NewSaveWeightsOnEpoch(i) : i \in {NoInterval} \cup (1..MaxInterval) }
    /\ rowc = NoneT
    /\ image_data_format = "channels_last"
    /\ PadIdle
    /\ ConvIdle

\* EarlyStopping.on_train_begin, and the first epoch is trained.
OnTrainBegin ==
    /\ early.pc = "constructed"
    /\ early' = [early EXCEPT !.wait = 0,
                              !.stopped_epoch = 0,
                              !.best = IF early.mode = "max" THEN -PosInf ELSE PosInf,
                              !.stop_training = FALSE,
                              !.weights = TrainedWeights(0),
                              !.pc = "epoch"]
    /\ UNCHANGED <<saver, rowc>>
    /\ UNCHANGED cubeVars

\* EarlyStoppingMin.on_epoch_end(epoch, logs) at the end of the current epoch.
EarlyEpochEnd(current) ==
    /\ early.pc = "epoch"
    /\ early' = [EarlyStoppingMin_on_epoch_end(early, early.epoch, current)
                   EXCEPT !.logs = current, !.pc = "handled"]
    /\ UNCHANGED <<saver, rowc>>
    /\ UNCHANGED cubeVars

\* SaveWeightsOnEpoch.on_epoch_end(epoch, logs) at the end of the same epoch.
SaveEpochEnd(locked) ==
    /\ early.pc = "handled"
    /\ saver.pc = "waiting"
    /\ saver' = SaveWeightsOnEpoch_on_epoch_end(saver, early.epoch, locked)
    /\ UNCHANGED <<early, rowc>>
    /\ UNCHANGED cubeVars

\* The training loop after the callbacks of an epoch: an exception ends the
\* run, stop_training breaks the loop, otherwise the next epoch is trained.
FitLoop ==
    /\ early.pc = "handled"
    /\ saver.pc \in {"done", "raised"}
    /\ IF saver.pc = "raised"
       THEN /\ early' = [early EXCEPT !.pc = "crashed"]
            /\ saver' = saver
       ELSE IF early.stop_training
       THEN /\ early' = [early EXCEPT !.pc = "stopped"]
            /\ saver' = saver
       ELSE IF early.epoch + 1 >= FitEpochs
       THEN /\ early' = [early EXCEPT !.pc = "finished"]
            /\ saver' = saver
       ELSE /\ early' = [early EXCEPT !.epoch = early.epoch + 1,
                                      !.weights = TrainedWeights(early.epoch + 1),
                                      !.pc = "epoch"]
            /\ saver' = [saver EXCEPT !.pc = "waiting"]
    /\ UNCHANGED rowc
    /\ UNCHANGED cubeVars

NextTrain ==
    \/ OnTrainBegin
    \/ \E current \in {NoValue} \cup (1..MaxLoss) : EarlyEpochEnd(current)
    \/ \E locked \in BOOLEAN : SaveEpochEnd(locked)
    \/ FitLoop

SpecTrain == InitTrain /\ [][NextTrain]_vars

\* ----------------------------------------------------------- RowConnected2D
\* RowConnected2D(filters, kernel_size, strides=, data_format='channels_first',
\* use_bias=, activation=): the attributes after LocallyConnected2D.__init__
\* (padding is 'valid'), and the locals of row_conv2d during call: i, the
\* slices taken so far (slice_rows), the list `out` and `output`.
NewRowConnected2D(filters, kernel_size, strides, use_bias, activation) ==
    [filters |-> filters,
     kernel_size |-> kernel_size,
     strides |-> strides,
     padding |-> "valid",
     data_format |-> "channels_first",
     use_bias |-> use_bias,
     activation |-> activation,
     input_shape |-> <<>>,
     output_row |-> 0,
     output_col |-> 0,
     kernel |-> <<>>,
     bias |-> NoneT,
     inputs |-> NoneT,
     i |-> 0,
     slice_rows |-> <<>>,
     out |-> <<>>,
     output |-> NoneT,
     pc |-> "constructed"]

\* kernel[i] of the weight of shape (output_row, kh, kw, input_filter,
\* filters): the values differ from row to row and within the window.
RowKernel(i, s) ==
    [ok |-> TRUE, shape |-> s,
     at |-> [j \in Dom4(s) |-> 1 + i + j[1] + 2 * j[2] + j[3] + j[4]]]

\* The bias of shape (output_row, 1, filters).
RowBias(output_row, filters) ==
    [ok |-> TRUE, shape |-> <<output_row, 1, filters>>,
     at |-> [j \in (0..(output_row - 1)) \X {0} \X (0..(filters - 1)) |->
               10 * (j[1] + 1) + j[3]]]

\* RowConnected2D.build(input_shape), data_format channels_first.  An input
\* smaller than the kernel gives output_row or output_col <= 0.  output_col is
\* only stored; output_row is the first dimension of the weights: with 0 they
\* are empty and build succeeds, a negative one makes add_weight raise after
\* output_row and output_col have been stored.
RowBuilt(L, input_shape) ==
    LET input_row == input_shape[3]
        input_col == input_shape[4]
        input_filter == input_shape[2]
        output_row == conv_output_length(input_row, L.kernel_size[1], L.padding,
                                         L.strides[1], 1)
        output_col == conv_output_length(input_col, L.kernel_size[2], L.padding,
                                         L.strides[2], 1)
        kernel_shape == <<L.kernel_size[1], L.kernel_size[2], input_filter, L.filters>>
    IN IF output_row < 0
       THEN [L EXCEPT !.input_shape = input_shape,
                      !.output_row = output_row,
                      !.output_col = output_col,
                      !.pc = "build_raised"]
       ELSE [L EXCEPT !.input_shape = input_shape,
                      !.output_row = output_row,
                      !.output_col = output_col,
                      !.kernel = [i \in 1..output_row |-> RowKernel(i - 1, kernel_shape)],
                      !.bias = IF L.use_bias THEN RowBias(output_row, L.filters)
                               ELSE NoneT,
                      !.pc = "built"]

\* slice_row of iteration i of row_conv2d.
slice_row(i, strides, kernel_size) ==
    SliceRange(i * strides[1], i * strides[2] + kernel_size[1])

\* x = inputs[:, :, slice_row, :]
RowSlice(x, i, strides, kernel_size) ==
    Slice4(x, slice_row(i, strides, kernel_size), SliceAll)

\* K.conv2d(x, kernel[i], strides=strides, padding='valid', data_format)
RowConv(x, kernel, i, strides, kernel_size) ==
    K_conv2d(RowSlice(x, i, strides, kernel_size), kernel[i + 1], strides, "valid",
             <<1, 1>>)

\* K.bias_add(output, bias, 'channels_first') with a bias of shape
\* (rows, 1, filters): output + reshape(bias, (1, filters, rows, 1)), with the
\* broadcasting of the backend.  The reshape keeps the row-major order of the
\* cells: cell (f, r) of the reshaped bias is cell f * rows + r of the flat
\* bias, i.e. bias[(f * rows + r) div filters, 0, (f * rows + r) mod filters].
K_bias_add_rows(x, bias) ==
    IF ~x.ok \/ ~bias.ok THEN ErrT
    ELSE IF bias.shape[3] # x.shape[2] /\ 1 \notin {bias.shape[3], x.shape[2]} THEN ErrT
    ELSE IF bias.shape[1] # x.shape[3] /\ 1 \notin {bias.shape[1], x.shape[3]} THEN ErrT
    ELSE LET rows == bias.shape[1]
             filters == bias.shape[3]
             s == <<x.shape[1], Max2(x.shape[2], filters),
                    Max2(x.shape[3], rows), x.shape[4]>>
             pos(k, n) == IF n = 1 THEN 0 ELSE k
             flat(f, r) == pos(f, filters) * rows + pos(r, rows)
         IN [ok |-> TRUE,
             shape |-> s,
             at |-> [j \in Dom4(s) |->
                       x.at[<<j[1], pos(j[2], x.shape[2]), pos(j[3], x.shape[3]), j[4]>>]
                       + bias.at[<<flat(j[2], j[3]) \div filters, 0,
                                   flat(j[2], j[3]) % filters>>]]]

\* The 4-D tensors given to the layer: every cell identifies its index, or
\* every cell is 1.
RowInputs(s) ==
    { Face(TaggedTensor(s \o <<1>>), 0),
      [ok |-> TRUE, shape |-> s, at |-> [j \in Dom4(s) |-> 1]] }

\* The input shapes the layer is built for: one batch entry, one channel.
RowShapes == { <<1, 1, h, w>> : h \in 1..MaxRows, w \in 1..MaxCols }

\* RowConnected2D.__init__ has run: activation=None is stored as linear.
InitRow ==
    /\ rowc \in { NewRowConnected2D(n, ks, sd, ub, activations_get(act)) :
                     n \in 1..MaxRowFilters,
                     ks \in (1..MaxRowKernel) \X (1..MaxRowKernel),
                     sd \in (1..MaxRowStride) \X (1..MaxRowStride),
                     ub \in BOOLEAN, act \in {"None", "relu"} }
    /\ early = NoneT
    /\ saver = NoneT
    /\ image_data_format = "channels_last"
    /\ PadIdle
    /\ ConvIdle

\* build(input_shape)
RowBuild(input_shape) ==
    /\ rowc.pc = "constructed"
    /\ rowc' = RowBuilt(rowc, input_shape)
    /\ UNCHANGED <<early, saver>>
    /\ UNCHANGED cubeVars

\* call(inputs) enters row_conv2d: out = [].
RowCall(x) ==
    /\ rowc.pc = "built"
    /\ rowc' = [rowc EXCEPT !.inputs = x, !.i = 0, !.slice_rows = <<>>,
                            !.out = <<>>, !.output = NoneT, !.pc = "looping"]
    /\ UNCHANGED <<early, saver>>
    /\ UNCHANGED cubeVars

\* One iteration of `for i in range(output_row)`.
RowIterate ==
    /\ rowc.pc = "looping"
    /\ rowc.i < rowc.output_row
    /\ LET x == RowSlice(rowc.inputs, rowc.i, rowc.strides, rowc.kernel_size)
           y == RowConv(rowc.inputs, rowc.kernel, rowc.i, rowc.strides,
                        rowc.kernel_size)
       IN rowc' = [rowc EXCEPT
                     !.slice_rows =
                         Append(@, [start |-> rowc.i * rowc.strides[1],
                                    rows |-> x.shape[3]]),
                     !.out = Append(@, y),
                     !.i = @ + 1,
                     !.pc = IF y.ok THEN "looping" ELSE "raised"]
    /\ UNCHANGED <<early, saver>>
    /\ UNCHANGED cubeVars

\* The end of the loop: K.concatenate(out, axis=2), the return of
\* row_conv2d, the bias and the activation of call.
RowReturn ==
    /\ rowc.pc = "looping"
    /\ rowc.i = rowc.output_row
    /\ LET joined == K_concatenate(rowc.out, 2)
           biased == IF rowc.use_bias THEN K_bias_add_rows(joined, rowc.bias)
                     ELSE joined
           output == Activate(rowc.activation, biased)
       IN rowc' = [rowc EXCEPT !.output = output,
                               !.pc = IF output.ok THEN "returned" ELSE "raised"]
    /\ UNCHANGED <<early, saver>>
    /\ UNCHANGED cubeVars

NextRow ==
    \/ \E s \in RowShapes : RowBuild(s)
    \/ rowc.pc = "built" /\ \E x \in RowInputs(rowc.input_shape) : RowCall(x)
    \/ RowIterate
    \/ RowReturn

SpecRow == InitRow /\ [][NextRow]_vars

\* ------------------------------------------------- vocabulary of the claims
Edges == {"top", "bottom", "left", "right"}
Faces == 0..(NumFaces - 1)

Finished == pc \in {"returned", "raised"}
Returned == pc = "returned"
SquareFaces == inputs.shape[3] = inputs.shape[4]
\* The side of the (square) input faces.
Side == inputs.shape[3]
TaggedInput == inputs = TaggedTensor(inputs.shape)
FaceIndexInput == inputs = FaceIndexTensor(inputs.shape)
Planes == (0..(inputs.shape[1] - 1)) \X (0..(inputs.shape[2] - 1))

\* <<row, col>>, in a face of side n padded by p, of the halo cell at depth d
\* outside edge e and position i along it (i outside 0..n-1 is a corner).
HaloCell(e, d, i, n, p) ==
    CASE e = "top" -> <<p - 1 - d, p + i>>
      [] e = "bottom" -> <<p + n + d, p + i>>
      [] e = "left" -> <<p + i, p - 1 - d>>
      [] e = "right" -> <<p + i, p + n + d>>

\* <<row, col>>, in a face of side n padded by p, of the cell at depth d inside
\* edge e and position j along it (j outside 0..n-1 lies in the halo).
EdgeCell(e, d, j, n, p) ==
    CASE e = "top" -> <<p + d, p + j>>
      [] e = "bottom" -> <<p + n - 1 - d, p + j>>
      [] e = "left" -> <<p + j, p + d>>
      [] e = "right" -> <<p + j, p + n - 1 - d>>

\* The position transform of an adjacency: reversal along the edge or identity.
Along(rev, i, n) == IF rev THEN n - 1 - i ELSE i

\* In padded tensor o built from input x (faces of side n, halo p): the whole
\* non-corner halo strip of face f at edge e is the interior strip of face g at
\* edge e2, positions mapped by rev.
StripCopy(o, x, n, p, f, e, g, e2, rev) ==
    \A bc \in (0..(x.shape[1] - 1)) \X (0..(x.shape[2] - 1)) :
      \A d \in 0..(p - 1) : \A i \in 0..(n - 1) :
        LET h == HaloCell(e, d, i, n, p)
            s == EdgeCell(e2, d, Along(rev, i, n), n, 0)
        IN o.at[<<bc[1], bc[2], h[1], h[2], f>>]
             = x.at[<<bc[1], bc[2], s[1], s[2], g>>]

\* The adjacency realised by the slices of call, read off a padding by 1 of a
\* tagged tensor with faces of side 2, where every strip names its source.
ProbeIn == TaggedTensor(<<1, 1, 2, 2, NumFaces>>)
ProbeOut == WidthPass(HeightPass(ProbeIn, 1), 1)
Neighbor ==
    [f \in Faces, e \in Edges |->
        CHOOSE t \in Faces \X Edges \X BOOLEAN :
            StripCopy(ProbeOut, ProbeIn, 2, 1, f, e, t[1], t[2], t[3])]

\* --------------------------------------------------------------- claims
\* The value of the padded output / of the input at <<row, col>> of face f.
OutAt(bc, rc, f) == outputs.at[<<bc[1], bc[2], rc[1], rc[2], f>>]
InAt(bc, rc, f) == inputs.at[<<bc[1], bc[2], rc[1], rc[2], f>>]

\* A call on square faces with a halo no deeper than the face has returned.
PaddedSquare == Returned /\ SquareFaces /\ HaloWidth \in 1..Side

\* The non-corner halo cell of face f at (e, d, i) is a copy of the interior
\* cell of face g at depth d from edge e2 and position j, in every plane.
CellCopy(f, e, d, i, g, e2, j) ==
    \A bc \in Planes :
      OutAt(bc, HaloCell(e, d, i, Side, HaloWidth), f)
        = InAt(bc, EdgeCell(e2, d, j, Side, 0), g)

\* The non-corner halo cell of face g at (e2, d, j) holds a cell of face f.
DrawnFrom(g, e2, d, j, f) ==
    \A bc \in Planes :
      \E rc \in (0..(Side - 1)) \X (0..(Side - 1)) :
        OutAt(bc, HaloCell(e2, d, j, Side, HaloWidth), g) = InAt(bc, rc, f)

Depths == 0..(HaloWidth - 1)
Positions == 0..(Side - 1)

\* C1 as stated: whenever the halo cell of f at (e, d, i) is a copy of the
\* interior cell of g at depth d from e2 and position j, the halo cell of g at
\* (e2, d, j) is a copy of the interior cell of f at depth d from e and position
\* i.  A cell next to a corner of g lies at depth d from two edges of g, and the
\* halo outside the second one comes from a third face.
C1_CellSymmetry ==
    (PaddedSquare /\ TaggedInput) =>
      \A f \in Faces, e \in Edges, d \in Depths, i \in Positions :
        \A g \in Faces, e2 \in Edges, j \in Positions :
          CellCopy(f, e, d, i, g, e2, j) => CellCopy(g, e2, d, j, f, e, i)

\* The symmetry of the adjacency, read on whole strips: the halo strip of f at
\* e is the edge strip of some face g at some edge e2 under one transform t
\* (reversal or identity), and the halo strip of g at e2 is the edge strip of f
\* at e under the same t.
StripSymmetry ==
    \A f \in Faces, e \in Edges :
      \E t \in Faces \X Edges \X BOOLEAN :
        /\ StripCopy(outputs, inputs, Side, HaloWidth, f, e, t[1], t[2], t[3])
        /\ StripCopy(outputs, inputs, Side, HaloWidth, t[1], t[2], f, e, t[3])

\* The symmetry read cell by cell: every halo cell of f has a partner that it
\* copies and whose halo cell copies it back; and whenever the halo cell of f at
\* (e, d, i) copies the cell of g at (e2, d, j) and the halo outside e2 at that
\* place is drawn from f, that halo cell is the cell of f at (e, d, i).
CellSymmetry ==
    \A f \in Faces, e \in Edges, d \in Depths, i \in Positions :
      /\ \E g \in Faces, e2 \in Edges, j \in Positions :
           CellCopy(f, e, d, i, g, e2, j) /\ CellCopy(g, e2, d, j, f, e, i)
      /\ \A g \in Faces, e2 \in Edges, j \in Positions :
           (CellCopy(f, e, d, i, g, e2, j) /\ DrawnFrom(g, e2, d, j, f))
             => CellCopy(g, e2, d, j, f, e, i)

\* C1: the face adjacency realised by the slices is symmetric under the
\* inverse transform, for faces of every side N >= 1 and halo 1 <= p <= N.
\* Every halo strip of a face f at an edge e is the edge strip of a face g at
\* an edge e2 whose halo strip is the edge strip of f at e, under one
\* self-inverse transform; and the converse of a cell-wise copy holds at the
\* edge e2 of g whose halo is drawn from f.
C1_TopologySymmetry ==
    (PaddedSquare /\ TaggedInput) => (StripSymmetry /\ CellSymmetry)

\* Faces of side 3 padded by 2 (two batches): the top halo of face 1 is the
\* right edge strip of face 4, reversed along the edge.
C1_Witness ==
    /\ PaddedSquare /\ TaggedInput
    /\ Side = 3 /\ HaloWidth = 2 /\ inputs.shape[1] = 2
    /\ StripCopy(outputs, inputs, 3, 2, 1, "top", 4, "right", TRUE)
    /\ StripCopy(outputs, inputs, 3, 2, 4, "right", 1, "top", TRUE)

\* The values found on the non-corner border of face f at edge e (p = 1).
BorderValues(f, e) ==
    { OutAt(bc, HaloCell(e, 0, i, Side, 1), f) : bc \in Planes, i \in 0..(Side - 1) }

Opposite(f) == CASE f = 0 -> 2 [] f = 1 -> 3 [] f = 2 -> 0 [] f = 3 -> 1
                 [] f = 4 -> 5 [] f = 5 -> 4

\* C2: with every cell of face f holding f and p = 1, each non-corner border
\* holds the index of the adjacent face: (i-1) mod 4 left and (i+1) mod 4 right
\* of equatorial face i, the two poles above and below it (one each); the four
\* equatorial faces around each pole; never the face itself or its opposite.
C2_HaloCorrectness ==
    (Returned /\ FaceIndexInput /\ HaloWidth = 1) =>
      /\ \A f \in 0..3 :
           /\ BorderValues(f, "left") = {(f + 3) % 4}
           /\ BorderValues(f, "right") = {(f + 1) % 4}
           /\ \/ BorderValues(f, "top") = {4} /\ BorderValues(f, "bottom") = {5}
              \/ BorderValues(f, "top") = {5} /\ BorderValues(f, "bottom") = {4}
      /\ \A f \in 4..5 :
           /\ \A e \in Edges : Cardinality(BorderValues(f, e)) = 1
           /\ UNION { BorderValues(f, e) : e \in Edges } = 0..3
      /\ \A f \in Faces, e \in Edges :
           f \notin BorderValues(f, e) /\ Opposite(f) \notin BorderValues(f, e)

C2_Witness ==
    /\ Returned /\ FaceIndexInput /\ HaloWidth = 1 /\ Side = 3
    /\ BorderValues(4, "left") = {3}
    /\ BorderValues(0, "top") = {4}

\* The edge a padded cell lies outside of, vertically and horizontally.
VertEdge(rc, p) == IF rc[1] < p THEN "top" ELSE "bottom"
HorizEdge(rc, p) == IF rc[2] < p THEN "left" ELSE "right"

\* One hop of the neighbour relation: the padded cell rc of face f, taken as a
\* halo cell outside edge e, is the cell <<g, rc2>> of the neighbour across e.
HopAcross(f, e, rc, n, p) ==
    LET d == CASE e = "top" -> p - 1 - rc[1]
               [] e = "bottom" -> rc[1] - p - n
               [] e = "left" -> p - 1 - rc[2]
               [] e = "right" -> rc[2] - p - n
        i == IF e \in {"top", "bottom"} THEN rc[2] - p ELSE rc[1] - p
        nb == Neighbor[f, e]
    IN <<nb[1], EdgeCell(nb[2], d, Along(nb[3], i, n), n, p)>>

\* The side of the face a non-corner halo cell lies on.
HaloSide(rc, n, p) ==
    IF rc[1] < p THEN "top"
    ELSE IF rc[1] >= p + n THEN "bottom"
    ELSE IF rc[2] < p THEN "left" ELSE "right"

\* Two hops from corner cell rc of face f, the first across edge e: the value
\* of the interior input cell reached.
TwoHop(bc, f, e, rc, n, p) ==
    LET h1 == HopAcross(f, e, rc, n, p)
        h2 == HopAcross(h1[1], HaloSide(h1[2], n, p), h1[2], n, p)
    IN InAt(bc, <<h2[2][1] - p, h2[2][2] - p>>, h2[1])

WidthFirst(bc, f, rc, n, p) == TwoHop(bc, f, HorizEdge(rc, p), rc, n, p)
HeightFirst(bc, f, rc, n, p) == TwoHop(bc, f, VertEdge(rc, p), rc, n, p)

\* The corner halo cells of a face of side n padded by p.
HaloRange(n, p) == (0..(p - 1)) \cup ((p + n)..(n + 2 * p - 1))
Corners(n, p) == HaloRange(n, p) \X HaloRange(n, p)

\* C3 as stated: every corner halo cell has the value of the two-hop trace,
\* the same whether traced height-first or width-first.
C3_CornersBothPaths ==
    (PaddedSquare /\ TaggedInput) =>
      \A bc \in Planes, f \in Faces, rc \in Corners(Side, HaloWidth) :
        /\ OutAt(bc, rc, f) = WidthFirst(bc, f, rc, Side, HaloWidth)
        /\ OutAt(bc, rc, f) = HeightFirst(bc, f, rc, Side, HaloWidth)

\* C3 (amended): every corner halo cell of every face has the value of the
\* two-hop trace that crosses the face's left/right edge first; the trace that
\* crosses the top/bottom edge first ends in a different cell.
C3_CornersWidthFirst ==
    (PaddedSquare /\ TaggedInput) =>
      \A bc \in Planes, f \in Faces, rc \in Corners(Side, HaloWidth) :
        /\ OutAt(bc, rc, f) = WidthFirst(bc, f, rc, Side, HaloWidth)
        /\ OutAt(bc, rc, f) # HeightFirst(bc, f, rc, Side, HaloWidth)

\* Side 3, halo 2: the top-left corner of face 0 comes through face 3 from
\* face 4, that of face 4 through face 3 from face 2.
C3_Witness ==
    /\ PaddedSquare /\ TaggedInput /\ Side = 3 /\ HaloWidth = 2
    /\ OutAt(<<0, 0>>, <<0, 0>>, 0) % NumFaces = 4
    /\ OutAt(<<0, 0>>, <<0, 0>>, 4) % NumFaces = 2
    /\ OutAt(<<0, 0>>, <<0, 0>>, 0) = WidthFirst(<<0, 0>>, 0, <<0, 0>>, 3, 2)

\* C4: on square faces with 1 <= p <= H, call returns a tensor of shape
\* (batch, channels, H + 2p, W + 2p, 6).
C4_PaddedShape ==
    (Finished /\ SquareFaces /\ HaloWidth \in 1..Side) =>
      /\ Returned
      /\ outputs.shape = << inputs.shape[1], inputs.shape[2],
                            inputs.shape[3] + 2 * HaloWidth,
                            inputs.shape[4] + 2 * HaloWidth, NumFaces >>

C4_Witness ==
    /\ Returned /\ SquareFaces /\ Side = 2 /\ HaloWidth = 2
    /\ inputs.shape = <<2, 2, 2, 2, NumFaces>>
    /\ outputs.shape = <<2, 2, 6, 6, NumFaces>>

\* C5: padding by p = 0 is the identity: call returns a tensor with the shape
\* and the cells of its input.
C5_ZeroPaddingIdentity ==
    (Finished /\ HaloWidth = 0) =>
      /\ Returned
      /\ outputs.shape = inputs.shape
      /\ outputs.at = inputs.at

\* C10: a halo deeper than the face makes call fail; no tensor is returned.
C10_DeepHaloRaises ==
    (Finished /\ HaloWidth > Min2(inputs.shape[3], inputs.shape[4])) =>
      pc = "raised"

\* ------------------------------------------- claims on CubeSphereConv2D
ConvReturned == conv_pc = "returned"

\* Face f of the concatenated output of call, before the activation.
OutFace(f) == Face(conv_out, f)

\* A 4-D tensor with its rows (height axis) / columns (width axis) reversed.
FlipHeight(t) ==
    [ok |-> t.ok, shape |-> t.shape,
     at |-> [i \in Dom4(t.shape) |-> t.at[<<i[1], i[2], t.shape[3] - 1 - i[3], i[4]>>]]]
FlipWidth(t) ==
    [ok |-> t.ok, shape |-> t.shape,
     at |-> [i \in Dom4(t.shape) |-> t.at[<<i[1], i[2], i[3], t.shape[4] - 1 - i[4]>>]]]

\* A plain 2D convolution of x with the layer's strides, padding and dilation,
\* plus the bias when the layer uses one.
PlainConv(x, kernel, bias) ==
    LET y == K_conv2d(x, kernel, layer.strides, layer.padding, layer.dilation_rate)
    IN IF layer.use_bias THEN K_bias_add(y, bias) ELSE y

\* The kernel and bias the claims assign to face f.
KernelOfFace(f) ==
    IF f < 4 THEN layer.equatorial_kernel
    ELSE IF f = 4 \/ ~layer.independent_north_pole THEN layer.polar_kernel
    ELSE layer.north_pole_kernel
BiasOfFace(f) ==
    IF f < 4 THEN layer.equatorial_bias
    ELSE IF f = 4 \/ ~layer.independent_north_pole THEN layer.polar_bias
    ELSE layer.north_pole_bias

\* Faces 0..4 are convolved as they are.
FacesUpTo4Unreversed ==
    \A f \in 0..4 :
      OutFace(f) = PlainConv(Face(conv_in, f), KernelOfFace(f), BiasOfFace(f))

\* C6 as stated: with flip_north_pole face 5 is reversed along its width axis
\* before the convolution and its result along its width axis afterwards;
\* without it face 5 is not reversed; faces 0..4 are never reversed.
C6_FlipAlongWidth ==
    ConvReturned =>
      /\ layer.flip_north_pole =>
           OutFace(5) = FlipWidth(PlainConv(FlipWidth(Face(conv_in, 5)),
                                            KernelOfFace(5), BiasOfFace(5)))
      /\ ~layer.flip_north_pole =>
           OutFace(5) = PlainConv(Face(conv_in, 5), KernelOfFace(5), BiasOfFace(5))
      /\ FacesUpTo4Unreversed

\* C6 (amended): with flip_north_pole face 5 is reversed along its height
\* axis (axis -2 of the (batch, channels, height, width) face) before the
\* convolution and its result along its height axis afterwards; without it
\* face 5 is not reversed; faces 0..4 are never reversed.
C6_FlipAlongHeight ==
    ConvReturned =>
      /\ layer.flip_north_pole =>
           OutFace(5) = FlipHeight(PlainConv(FlipHeight(Face(conv_in, 5)),
                                             KernelOfFace(5), BiasOfFace(5)))
      /\ ~layer.flip_north_pole =>
           OutFace(5) = PlainConv(Face(conv_in, 5), KernelOfFace(5), BiasOfFace(5))
      /\ FacesUpTo4Unreversed

\* A flipped call whose face 5 output differs from the unflipped convolution
\* and has more than one row.
C6_Witness ==
    /\ ConvReturned /\ layer.flip_north_pole
    /\ OutFace(5).shape[3] >= 2
    /\ OutFace(5) = FlipHeight(PlainConv(FlipHeight(Face(conv_in, 5)),
                                         KernelOfFace(5), BiasOfFace(5)))
    /\ OutFace(5) # PlainConv(Face(conv_in, 5), KernelOfFace(5), BiasOfFace(5))

\* A kernel unchanged by reversal along its height / its width axis.
HeightSymmetric(k) ==
    \A i \in Dom4(k.shape) : k.at[i] = k.at[<<k.shape[1] - 1 - i[1], i[2], i[3], i[4]>>]
WidthSymmetric(k) ==
    \A i \in Dom4(k.shape) : k.at[i] = k.at[<<i[1], k.shape[2] - 1 - i[2], i[3], i[4]>>]

\* Valid padding, stride 1, dilation 1.
UnitValidConv ==
    /\ layer.padding = "valid"
    /\ layer.strides = <<1, 1>>
    /\ layer.dilation_rate = <<1, 1>>

\* The face 5 output of the same layer with flip_north_pole = False.
UnflippedFace5 ==
    Face(NorthPoleOutput([layer EXCEPT !.flip_north_pole = FALSE], conv_in), 0)

\* C7 as stated: with a north kernel unchanged by reversal along its width
\* axis, the face 5 output with flip_north_pole = True equals the one with
\* flip_north_pole = False.
C7_WidthSymmetricKernel ==
    (ConvReturned /\ layer.flip_north_pole /\ UnitValidConv
       /\ WidthSymmetric(KernelOfFace(5))) =>
      OutFace(5) = UnflippedFace5

\* C7 (amended): with a north kernel unchanged by reversal along its height
\* axis (valid padding, stride 1, dilation 1), the face 5 output with
\* flip_north_pole = True equals the one with flip_north_pole = False.
C7_HeightSymmetricKernel ==
    (ConvReturned /\ layer.flip_north_pole /\ UnitValidConv
       /\ HeightSymmetric(KernelOfFace(5))) =>
      OutFace(5) = UnflippedFace5

\* A flipped call with a kernel symmetric in height only: the output has rows
\* that differ.
C7_Witness ==
    /\ ConvReturned /\ layer.flip_north_pole /\ UnitValidConv
    /\ HeightSymmetric(KernelOfFace(5)) /\ ~WidthSymmetric(KernelOfFace(5))
    /\ OutFace(5).shape[3] >= 2
    /\ OutFace(5) # FlipHeight(OutFace(5))
    /\ OutFace(5) = UnflippedFace5

\* C8: without the flip, output face f is the plain convolution of input face
\* f with the equatorial weights for f in 0..3, the polar weights for f = 4,
\* and for f = 5 the north pole weights if independent_north_pole and the
\* polar weights otherwise; the six results lie on the last axis in face order.
C8_WeightSharing ==
    (ConvReturned /\ ~layer.flip_north_pole) =>
      /\ conv_out.shape[5] = NumFaces
      /\ \A f \in 0..3 :
           OutFace(f) = PlainConv(Face(conv_in, f), layer.equatorial_kernel,
                                  layer.equatorial_bias)
      /\ OutFace(4) = PlainConv(Face(conv_in, 4), layer.polar_kernel, layer.polar_bias)
      /\ OutFace(5) =
           IF layer.independent_north_pole
           THEN PlainConv(Face(conv_in, 5), layer.north_pole_kernel,
                          layer.north_pole_bias)
           ELSE PlainConv(Face(conv_in, 5), layer.polar_kernel, layer.polar_bias)

\* An unflipped call of a layer with bias and an independent north pole: the
\* three kernels give three different results on the same face.
C8_Witness ==
    /\ ConvReturned /\ ~layer.flip_north_pole
    /\ layer.independent_north_pole /\ layer.use_bias
    /\ OutFace(5) = PlainConv(Face(conv_in, 5), layer.north_pole_kernel,
                              layer.north_pole_bias)
    /\ OutFace(5) # PlainConv(Face(conv_in, 5), layer.polar_kernel, layer.polar_bias)
    /\ OutFace(0) # PlainConv(Face(conv_in, 0), layer.polar_kernel, layer.polar_bias)

\* Tensor x with the cells of the faces in G changed.
Perturb(x, G) ==
    [ok |-> x.ok, shape |-> x.shape,
     at |-> [i \in Dom5(x.shape) |-> IF i[5] \in G THEN -1 - x.at[i] ELSE x.at[i]]]

\* Inputs that agree with x on face f: one other face changed, or all others.
AgreeingOn(x, f) ==
    { Perturb(x, {g}) : g \in Faces \ {f} } \cup { Perturb(x, Faces \ {f}) }

\* The returned tensor is what the blocks give in program order, and any input
\* that agrees with the given one on face f gives the same output on face f.
NoMixing ==
    /\ conv_ret = CallResult(layer, conv_in)
    /\ \A f \in Faces : \A y \in AgreeingOn(conv_in, f) :
         Face(CallResult(layer, y), f) = Face(conv_ret, f)

\* C9: no cross-face mixing.  Whatever the order in which the six blocks were
\* evaluated, call returns what the blocks give in program order, and any
\* input that agrees with the given one on face f gives the same output on
\* face f.  A layer with activation softmax breaks it: the activation is
\* applied to the concatenated tensor and normalises over its last axis, the
\* faces.
C9_NoCrossFaceMixing == ConvReturned => NoMixing

\* C9, activations that act cell by cell (linear, relu): no cross-face mixing.
C9_ElementwiseNoMixing ==
    (ConvReturned /\ layer.activation \in {"linear", "relu"}) => NoMixing

\* A returned call of a layer with an activation acting cell by cell, whose
\* output changes on face 5, and only there, when face 5 of the input changes.
C9_Witness ==
    /\ ConvReturned
    /\ layer.activation \in {"linear", "relu"}
    /\ LET y == Perturb(conv_in, {5})
       IN /\ Face(CallResult(layer, y), 4) = Face(conv_ret, 4)
          /\ Face(CallResult(layer, y), 5) # Face(conv_ret, 5)
          /\ y \in AgreeingOn(conv_in, 4)

\* -------------------------------------- failure and frame of the padding
\* C11: on faces that are not square (height # width) call raises: whatever
\* the halo width, it never gets past the first pass, there is no height-padded
\* intermediate and no output tensor.
C11_NonSquareRaises ==
    (pc # "idle" /\ ~SquareFaces) =>
      /\ pc = "raised"
      /\ ~out1.ok
      /\ ~outputs.ok

\* A call on faces of height 2 and width 3 with halo 1 has raised.
C11_Witness ==
    /\ pc = "raised" /\ HaloWidth = 1
    /\ inputs.shape[3] = 2 /\ inputs.shape[4] = 3
    /\ ~out1.ok /\ ~outputs.ok

\* C17: call never modifies its input.  From the entry of call on, whether
\* it returns or raises, the input tensor keeps the shape and the cells it was
\* given, and the tensors the two passes build are other tensors than the input.
C17_InputUnchanged ==
    /\ [][pc # "idle" => inputs' = inputs]_vars
    /\ [](pc # "idle" =>
            /\ inputs \in PadInputs
            /\ out1.ok => out1 # inputs
            /\ outputs.ok => (outputs # inputs /\ outputs # out1))

\* A returned call on a tagged tensor: the input is still the tagged tensor,
\* the output another one.
C17_Witness ==
    /\ Returned /\ TaggedInput /\ Side = 2 /\ HaloWidth = 1
    /\ out1.ok /\ out1 # inputs
    /\ outputs # inputs

\* ------------------------------------- claims on the constructors
\* The data layout a constructor call asks for: the data_format argument,
\* the configured default when it is None; case does not matter.
RequestedLayout(a) ==
    Lower(IF a.data_format = "None" THEN image_data_format ELSE a.data_format)

\* C12: a constructor call of either class that asks for any data layout other
\* than channels_first raises and leaves no instance (nothing that build or
\* call could be applied to), and every instance there is has data_format
\* channels_first.
C12_ChannelsFirstOnly ==
    /\ (conv_args # NoneT /\ RequestedLayout(conv_args) # "channels_first") =>
         (conv_pc = "init_raised" /\ layer = NoneT)
    /\ (pad_args # NoneT /\ RequestedLayout(pad_args) # "channels_first") =>
         (pc = "init_raised" /\ padding = <<>>)
    /\ layer # NoneT => layer.data_format = "channels_first"

\* CubeSphereConv2D(kernel_size=(2, 2), data_format='channels_last') with
\* otherwise valid arguments has raised.
C12_Witness ==
    /\ conv_pc = "init_raised" /\ layer = NoneT
    /\ conv_args.data_format = "channels_last"
    /\ conv_args.kernel_size = <<2, 2>> /\ conv_args.padding = "valid"
    /\ conv_args.activation = "relu"

\* The keys the configuration record has to contain.
ConfigKeys ==
    {"filters", "kernel_size", "strides", "padding", "data_format",
     "dilation_rate", "activation", "use_bias", "flip_north_pole",
     "independent_north_pole", "kernel_initializer", "bias_initializer",
     "kernel_regularizer", "bias_regularizer", "activity_regularizer",
     "kernel_constraint", "bias_constraint"}

\* C19: the record get_config returns contains all the listed keys, the
\* constructor accepts it, and the instance built from it has the attributes
\* of the original and an equal get_config record; the instance from_config
\* has built has the record it was built from.  A CubeSpherePadding2D built
\* from the stored padding ((p, p), (p, p), (0, 0)) of an instance passes the
\* constructor's checks and stores the same padding.
C19_ConfigRoundTrip ==
    /\ conv_pc \in {"constructed", "reconstructed"} =>
         LET cfg == get_config(layer)
             again == CubeSphereConv2D_init(cfg, image_data_format)
         IN /\ ConfigKeys \subseteq DOMAIN cfg
            /\ again # NoneT
            /\ again = layer
            /\ get_config(again) = cfg
    /\ conv_pc = "reconstructed" => get_config(layer) = conv_args
    /\ pc = "idle" =>
         CubeSpherePadding2D_init([padding |-> padding, data_format |-> "channels_first"],
                                  image_data_format) = padding
    /\ pc = "reconstructed" =>
         (padding = pad_args.padding /\ padding[3] = <<0, 0>> /\ padding[1] = padding[2])

\* from_config has rebuilt a layer that was constructed with kernel_size=3,
\* padding='SAME', activation=None, an l2 regularizer and no name: the record
\* holds the normalised values.
C19_Witness ==
    /\ conv_pc = "reconstructed"
    /\ conv_args.kernel_size = <<3, 3>> /\ conv_args.strides = <<2, 2>>
    /\ conv_args.padding = "same" /\ conv_args.activation = "linear"
    /\ conv_args.kernel_regularizer = "L1L2"
    /\ conv_args.name = "cube_sphere_conv2d_1"
    /\ get_config(layer) = conv_args

\* ------------------------------------------ claims on the weights
\* The six kernel/bias attributes of a layer.
Weights(L) ==
    << L.equatorial_kernel, L.equatorial_bias, L.polar_kernel, L.polar_bias,
       L.north_pole_kernel, L.north_pole_bias >>
NoWeights == << NoneT, NoneT, NoneT, NoneT, NoneT, NoneT >>

\* C13: build on an input shape whose channel dimension is None raises and
\* allocates nothing: after it all six kernel/bias attributes are None and the
\* layer is not marked built; a built layer has a known channel dimension.
C13_UnknownChannelsRaise ==
    /\ conv_pc = "build_raised" =>
         (Weights(layer) = NoWeights /\ ~layer.built)
    /\ layer.built => layer.input_dim # NoneDim

C13_Witness ==
    /\ conv_pc = "build_raised"
    /\ layer.use_bias /\ layer.independent_north_pole
    /\ Weights(layer) = NoWeights /\ ~layer.built

\* Tensor t is allocated with shape s / is None.
Allocated(t, s) == t.ok /\ t.shape = s
Unset(t) == t = NoneT

\* C14: after build the equatorial and polar kernels have shape kernel_size +
\* (input_channels, filters); the north pole kernel has it if
\* independent_north_pole and is None otherwise; the equatorial and polar
\* biases have length filters if use_bias and are None otherwise; the north
\* pole bias is allocated exactly if use_bias and independent_north_pole;
\* without independent_north_pole the north face is convolved with the polar
\* kernel and bias.
C14_WeightAllocation ==
    layer.built =>
      LET ks == layer.kernel_size \o <<layer.input_dim, layer.filters>>
          bs == <<layer.filters>>
          x5 == Face(conv_in, 5)
      IN /\ Allocated(layer.equatorial_kernel, ks)
         /\ Allocated(layer.polar_kernel, ks)
         /\ IF layer.independent_north_pole
            THEN Allocated(layer.north_pole_kernel, ks)
            ELSE Unset(layer.north_pole_kernel)
         /\ IF layer.use_bias
            THEN Allocated(layer.equatorial_bias, bs) /\ Allocated(layer.polar_bias, bs)
            ELSE Unset(layer.equatorial_bias) /\ Unset(layer.polar_bias)
         /\ IF layer.use_bias /\ layer.independent_north_pole
            THEN Allocated(layer.north_pole_bias, bs)
            ELSE Unset(layer.north_pole_bias)
         /\ (ConvReturned /\ ~layer.independent_north_pole) =>
              OutFace(5) =
                IF layer.flip_north_pole
                THEN FlipHeight(PlainConv(FlipHeight(x5), layer.polar_kernel,
                                          layer.polar_bias))
                ELSE PlainConv(x5, layer.polar_kernel, layer.polar_bias)

\* A returned call of a layer with bias and without an independent north
\* pole, two input channels: the north face was convolved with the polar
\* weights, which give another result than the equatorial ones.
C14_Witness ==
    /\ ConvReturned /\ layer.built
    /\ layer.use_bias /\ ~layer.independent_north_pole /\ ~layer.flip_north_pole
    /\ layer.input_dim = 2
    /\ Unset(layer.north_pole_kernel) /\ Unset(layer.north_pole_bias)
    /\ layer.polar_kernel.shape = layer.kernel_size \o <<2, layer.filters>>
    /\ OutFace(5) = PlainConv(Face(conv_in, 5), layer.polar_kernel, layer.polar_bias)
    /\ OutFace(5) # PlainConv(Face(conv_in, 5), layer.equatorial_kernel,
                              layer.equatorial_bias)

\* The layer is constructed and not built / is built; a step keeps the weights.
BeforeBuild == conv_pc \in {"constructed", "build_raised"}
AfterBuild == conv_pc \in {"built", "running", "returned", "raised"}
WeightsKept == Weights(layer)' = Weights(layer)

\* C18: the kernel and bias attributes are None from construction until
\* build; a step changes them only if it is build, on a layer not yet built;
\* from then on, across any number of calls (entered, evaluated, returned or
\* raised), every kernel and bias keeps its shape and its values.
C18_WeightsFrame ==
    /\ [](BeforeBuild => Weights(layer) = NoWeights)
    /\ [][AfterBuild => WeightsKept]_vars
    /\ [][~WeightsKept => (BeforeBuild /\ conv_pc' = "built")]_vars

\* A call has returned on a layer whose weights are those build allocated.
C18_Witness ==
    /\ ConvReturned /\ layer.use_bias /\ layer.independent_north_pole
    /\ Weights(layer) =
         Weights(BuiltLayer(layer, layer.input_dim, <<"ones", "rows", "cols">>))
    /\ conv_ret.ok

\* ------------------------------------------------ claims on the shapes
\* compute_output_shape has been applied to the shape of conv_in / call has
\* ended on conv_in.
ShapeInferred == conv_pc \in {"inferred", "returned", "raised"}
ConvEnded == conv_pc \in {"returned", "raised"}

\* The standard length of a convolution output along an axis of length n:
\* the number of window positions for 'valid', ceil(n / stride) for 'same'.
StdConvLength(n, k, pad, stride, dilation) ==
    IF pad = "same" THEN ((n - 1) \div stride) + 1
    ELSE ((n - dilation * (k - 1) - 1) \div stride) + 1

\* L(h) and L(w) for the layer and the tensor it is given.
StdLengthOn(axis) ==
    StdConvLength(conv_in.shape[axis + 2], layer.kernel_size[axis], layer.padding,
                  layer.strides[axis], layer.dilation_rate[axis])

\* A tensor with six faces in which the (dilated) window fits.
AdmissibleConv ==
    /\ conv_in.shape[5] = NumFaces
    /\ StdLengthOn(1) >= 1 /\ StdLengthOn(2) >= 1

\* C15: compute_output_shape maps (b, c, h, w, 6) to (b, filters, L(h), L(w),
\* 6), L the standard convolution output length for the kernel size, padding
\* mode, stride and dilation of the axis, and call on a tensor of that shape
\* returns a tensor of exactly the declared shape.
C15_DeclaredShape ==
    (ShapeInferred /\ AdmissibleConv) =>
      /\ out_shape = << conv_in.shape[1], layer.filters, StdLengthOn(1), StdLengthOn(2), 6 >>
      /\ ConvEnded => (ConvReturned /\ conv_ret.shape = out_shape)

\* A (3, 2) kernel with strides (1, 2) and same padding on faces of height 3
\* and width 2: the output faces have height 3 and width 1.
C15_Witness ==
    /\ ConvReturned /\ AdmissibleConv
    /\ layer.kernel_size = <<3, 2>> /\ layer.strides = <<1, 2>>
    /\ layer.padding = "same"
    /\ conv_in.shape = <<1, 2, 3, 2, 6>>
    /\ out_shape = <<1, Filters, 3, 1, 6>>
    /\ conv_ret.shape = out_shape

\* C16: padding by p (1 <= p <= N) followed by a convolution with kernel
\* (2p + 1, 2p + 1), valid padding, stride 1 and dilation 1 gives back the
\* face size: from an input (b, c, N, N, 6) the declared and the actual output
\* shape are (b, filters, N, N, 6).
C16_HaloRecovered ==
    (pc = "returned" /\ ConvEnded /\ inputs.shape[5] = NumFaces
       /\ SquareFaces /\ HaloWidth \in 1..Side
       /\ layer.kernel_size = <<2 * HaloWidth + 1, 2 * HaloWidth + 1>>
       /\ UnitValidConv) =>
      /\ conv_in = outputs
      /\ ConvReturned
      /\ out_shape = << inputs.shape[1], layer.filters, Side, Side, 6 >>
      /\ conv_ret.shape = << inputs.shape[1], layer.filters, Side, Side, 6 >>

\* (1, 2, 8, 8, 6) padded by 1 and convolved with a (3, 3) kernel and 4
\* filters gives (1, 4, 8, 8, 6).
C16_Witness ==
    /\ pc = "returned" /\ ConvReturned
    /\ inputs.shape = <<1, 2, 8, 8, 6>> /\ HaloWidth = 1
    /\ outputs.shape = <<1, 2, 10, 10, 6>>
    /\ layer.kernel_size = <<3, 3>> /\ layer.filters = 4 /\ UnitValidConv
    /\ conv_in = outputs
    /\ conv_ret.shape = <<1, 4, 8, 8, 6>>

\* C20: on a tensor whose face axis does not have length 6 both
\* CubeSpherePadding2D.call and CubeSphereConv2D.call raise and give no output
\* tensor.
C20_MalformedFacesRaise ==
    /\ (Finished /\ inputs.shape[5] # NumFaces) => (pc = "raised" /\ ~outputs.ok)
    /\ (ConvEnded /\ conv_in.shape[5] # NumFaces) => (conv_pc = "raised" /\ ~conv_ret.ok)

\* The value of the height-padded intermediate tensor at <<row, col>> of
\* face f.
MidAt(bc, rc, f) == out1.at[<<bc[1], bc[2], rc[1], rc[2], f>>]
\* The rows and columns of a face of side n padded by p.
PaddedRange(n, p) == 0..(n + 2 * p - 1)

\* C24: the equatorial faces form a belt without rotation.  For every
\* equatorial face i, 1 <= p <= N, every padded row r and depth d < p, the
\* right halo cell at depth d is column d of row r of the height-padded face
\* (i + 1) mod 4 and the left halo cell at depth d is column W - 1 - d of row r
\* of the height-padded face (i - 1) mod 4; on a tagged input the cell of the
\* mirrored row holds something else (no reversal).
C24_EquatorialBelt ==
    PaddedSquare =>
      \A bc \in Planes, i \in 0..3 :
        \A r \in PaddedRange(Side, HaloWidth), d \in 0..(HaloWidth - 1) :
          LET right == OutAt(bc, <<r, HaloWidth + Side + d>>, i)
              left == OutAt(bc, <<r, HaloWidth - 1 - d>>, i)
              mirrored == Side + 2 * HaloWidth - 1 - r
          IN /\ right = MidAt(bc, <<r, d>>, (i + 1) % 4)
             /\ left = MidAt(bc, <<r, Side - 1 - d>>, (i + 3) % 4)
             /\ (TaggedInput /\ mirrored # r) =>
                  /\ right # MidAt(bc, <<mirrored, d>>, (i + 1) % 4)
                  /\ left # MidAt(bc, <<mirrored, Side - 1 - d>>, (i + 3) % 4)

\* Side 3, halo 2: the right halo of face 2 at row 3, depth 1 is the cell
\* (row 1, column 1) of face 3, its left halo at depth 0 the cell (1, 2) of
\* face 1.
C24_Witness ==
    /\ PaddedSquare /\ TaggedInput /\ Side = 3 /\ HaloWidth = 2
    /\ OutAt(<<0, 0>>, <<3, 6>>, 2) = MidAt(<<0, 0>>, <<3, 1>>, 3)
    /\ OutAt(<<0, 0>>, <<3, 6>>, 2) = InAt(<<0, 0>>, <<1, 1>>, 3)
    /\ OutAt(<<0, 0>>, <<3, 1>>, 2) = InAt(<<0, 0>>, <<1, 2>>, 1)

\* The strips the height pass puts above and below face g.
TopStrip(g) ==
    CASE g = 0 -> Top0(inputs, HaloWidth) [] g = 1 -> Top1(inputs, HaloWidth)
      [] g = 2 -> Top2(inputs, HaloWidth) [] g = 3 -> Top3(inputs, HaloWidth)
BottomStrip(g) ==
    CASE g = 0 -> Bottom0(inputs, HaloWidth) [] g = 1 -> Bottom1(inputs, HaloWidth)
      [] g = 2 -> Bottom2(inputs, HaloWidth) [] g = 3 -> Bottom3(inputs, HaloWidth)

\* The cell of the top or bottom strip of face g that lies in padded row r and
\* column col of the height-padded face g.
StripCell(bc, g, r, col) ==
    IF r < HaloWidth
    THEN TopStrip(g).at[<<bc[1], bc[2], r, col>>]
    ELSE BottomStrip(g).at[<<bc[1], bc[2], r - HaloWidth - Side, col>>]

\* C25: the width pass works on the output of the height pass.  After a call
\* with 1 <= p <= N the intermediate tensor is the height-padded input with
\* H + 2p rows, the output has the same H + 2p rows, and every corner halo
\* cell of an equatorial face i is the cell of the top or bottom strip the
\* height pass put on the left neighbour (i - 1) mod 4 or the right neighbour
\* (i + 1) mod 4, hence (on a tagged input) not a cell of the raw neighbour.
C25_WidthAfterHeight ==
    /\ (Finished /\ SquareFaces /\ HaloWidth \in 1..Side) => Returned
    /\ PaddedSquare =>
         /\ out1 = HeightPass(inputs, HaloWidth)
         /\ out1.shape[3] = Side + 2 * HaloWidth
         /\ outputs.shape[3] = Side + 2 * HaloWidth
         /\ \A bc \in Planes, i \in 0..3, rc \in Corners(Side, HaloWidth) :
              LET leftward == rc[2] < HaloWidth
                  g == IF leftward THEN (i + 3) % 4 ELSE (i + 1) % 4
                  col == IF leftward THEN Side - HaloWidth + rc[2]
                         ELSE rc[2] - HaloWidth - Side
              IN /\ OutAt(bc, rc, i) = StripCell(bc, g, rc[1], col)
                 /\ TaggedInput => OutAt(bc, rc, i) % NumFaces # g

\* Side 2, halo 2: the top-left corner of face 1 is the first cell of the
\* strip the height pass put above face 0, a cell of face 4.
C25_Witness ==
    /\ PaddedSquare /\ TaggedInput /\ Side = 2 /\ HaloWidth = 2
    /\ out1.shape[3] = 6 /\ outputs.shape[3] = 6
    /\ OutAt(<<0, 0>>, <<0, 0>>, 1) = Top0(inputs, 2).at[<<0, 0, 0, 0>>]
    /\ OutAt(<<0, 0>>, <<0, 0>>, 1) % NumFaces = 4

\* Whether <<row, col>> of a face of side n padded by p lies in the centre.
Central(rc, n, p) ==
    /\ rc[1] \in p..(p + n - 1)
    /\ rc[2] \in p..(p + n - 1)

\* C26: padding only rearranges.  For 1 <= p <= N the central block of every
\* output face is the input face cell for cell, and every halo cell, edge or
\* corner, holds the value of an interior input cell of another face of the
\* same batch entry and channel (on a tagged input every cell is told apart by
\* its value: no zero, no cell of the own face, no computed value).
C26_OnlyRearranges ==
    PaddedSquare =>
      \A bc \in Planes, f \in Faces :
        \A rc \in PaddedRange(Side, HaloWidth) \X PaddedRange(Side, HaloWidth) :
          IF Central(rc, Side, HaloWidth)
          THEN OutAt(bc, rc, f) = InAt(bc, <<rc[1] - HaloWidth, rc[2] - HaloWidth>>, f)
          ELSE /\ \E g \in Faces \ {f} :
                    \E src \in (0..(Side - 1)) \X (0..(Side - 1)) :
                      OutAt(bc, rc, f) = InAt(bc, src, g)
               /\ TaggedInput =>
                    \A src \in (0..(Side - 1)) \X (0..(Side - 1)) :
                      OutAt(bc, rc, f) # InAt(bc, src, f)

\* Side 3, halo 3, second batch entry: the centre of face 4 is face 4, its
\* bottom halo cell is a cell of face 0 and its top-left corner one of face 2.
C26_Witness ==
    /\ PaddedSquare /\ TaggedInput /\ Side = 3 /\ HaloWidth = 3
    /\ inputs.shape[1] = 2
    /\ OutAt(<<1, 0>>, <<4, 5>>, 4) = InAt(<<1, 0>>, <<1, 2>>, 4)
    /\ OutAt(<<1, 0>>, <<6, 3>>, 4) = InAt(<<1, 0>>, <<0, 0>>, 0)
    /\ OutAt(<<1, 0>>, <<0, 0>>, 4) % NumFaces = 2

\* C29: the strips of the polar faces are cut from the width-padded faces 3
\* and 1 of the same pass.  For 1 <= p <= N, every padded row r and c < p:
\* the left strip of face 4 is rows p..2p-1 of the padded face 3 (row 2p-1-c,
\* column r), its right strip rows p..2p-1 of the padded face 1; the strips of
\* face 5 are the last p original rows of the padded faces 3 and 1; all over
\* the W + 2p padded columns.  So every corner halo cell of a polar face is a
\* cell of face 0 or face 2.
C29_PolarAfterEquatorial ==
    PaddedSquare =>
      /\ \A bc \in Planes :
           \A r \in PaddedRange(Side, HaloWidth), c \in 0..(HaloWidth - 1) :
             LET last == Side + 2 * HaloWidth - 1
                 far == HaloWidth + Side + c
             IN /\ OutAt(bc, <<r, c>>, 4) = OutAt(bc, <<2 * HaloWidth - 1 - c, r>>, 3)
                /\ OutAt(bc, <<r, far>>, 4) = OutAt(bc, <<HaloWidth + c, last - r>>, 1)
                /\ OutAt(bc, <<r, c>>, 5) = OutAt(bc, <<Side + c, last - r>>, 3)
                /\ OutAt(bc, <<r, far>>, 5)
                     = OutAt(bc, <<Side + HaloWidth - 1 - c, r>>, 1)
      /\ TaggedInput =>
           \A bc \in Planes, f \in {4, 5}, rc \in Corners(Side, HaloWidth) :
             OutAt(bc, rc, f) % NumFaces \in {0, 2}

\* Side 3, halo 2: the top-right corner cell (0, 5) of face 4 is the cell
\* (2, 6) of the padded face 1, in its right halo, a cell of face 2; the
\* top-left corner of face 5 is a cell of face 0.
C29_Witness ==
    /\ PaddedSquare /\ TaggedInput /\ Side = 3 /\ HaloWidth = 2
    /\ OutAt(<<0, 0>>, <<0, 5>>, 4) = OutAt(<<0, 0>>, <<2, 6>>, 1)
    /\ OutAt(<<0, 0>>, <<0, 5>>, 4) % NumFaces = 2
    /\ OutAt(<<0, 0>>, <<0, 0>>, 5) % NumFaces = 0

\* The (before, after) padding a constructor argument asks for on axis k
\* (1: height, 2: width, 3: faces), for an integer or a tuple of three entries.
RequestedPadding(arg, k) ==
    IF Len(arg) = 1 THEN <<arg[1][1], arg[1][1]>>
    ELSE IF Len(arg[k]) = 1 THEN <<arg[k][1], arg[k][1]>>
    ELSE arg[k]
ThreeAxes(arg) == Len(arg) \in {1, 3}

\* CubeSpherePadding2D(...) was given a padding for three axes and the
\* channels-first layout.
PadRequested ==
    /\ pad_args # NoneT
    /\ ThreeAxes(pad_args.padding)
    /\ RequestedLayout(pad_args) = "channels_first"

\* C27: the halo is symmetric.  The constructor raises when the requested
\* height padding differs from the width padding or the padding of two
\* opposite edges differs; whenever it succeeds the stored padding is
\* ((p, p), (p, p), (0, 0)) with p the requested height padding, whatever was
\* asked for on the face axis.
C27_SymmetricHalo ==
    /\ PadRequested =>
         LET h == RequestedPadding(pad_args.padding, 1)
             w == RequestedPadding(pad_args.padding, 2)
         IN IF h # w \/ h[1] # h[2] \/ w[1] # w[2]
            THEN pc = "init_raised" /\ padding = <<>>
            ELSE /\ pc \in {"idle", "reconstructed"}
                 /\ padding = << <<h[1], h[1]>>, <<h[1], h[1]>>, <<0, 0>> >>
    /\ pc \in {"idle", "reconstructed"} =>
         \E p \in 0..MaxPad : padding = << <<p, p>>, <<p, p>>, <<0, 0>> >>

\* CubeSpherePadding2D(padding=((2, 2), (2, 2), (3, 4))) has stored
\* ((2, 2), (2, 2), (0, 0)).
C27_Witness ==
    /\ pc = "idle" /\ PadRequested
    /\ pad_args.padding = << <<2, 2>>, <<2, 2>>, <<3, 4>> >>
    /\ padding = << <<2, 2>>, <<2, 2>>, <<0, 0>> >>

\* CubeSpherePadding2D(padding=((1, 2), (1, 2), (0, 0))), equal on both axes
\* and different on opposite edges, has raised.
C27_WitnessRaised ==
    /\ pc = "init_raised" /\ PadRequested
    /\ pad_args.padding = << <<1, 2>>, <<1, 2>>, <<0, 0>> >>

\* C30: every weight build registers has a name of its own: in a built
\* layer no two of the names given to add_weight are equal, whatever use_bias
\* and independent_north_pole are.
C30_DistinctWeightNames ==
    layer.built =>
      \A i, j \in DOMAIN layer.weight_names :
        i # j => layer.weight_names[i] # layer.weight_names[j]

\* ------------------------------------------ claims on the callbacks
\* The number of epochs whose on_epoch_end EarlyStoppingMin has handled.
EpochsEnded ==
    IF early.pc = "constructed" THEN 0
    ELSE IF early.pc = "epoch" THEN early.epoch
    ELSE early.epoch + 1

\* C21: with max_epochs = N >= 1 training runs for at most N epochs: once N
\* epochs have ended (indices 0..N-1), model.stop_training is set.
C21_AtMostMaxEpochs ==
    (early.max_epochs # NoMax /\ EpochsEnded >= early.max_epochs)
      => early.stop_training

\* EarlyStoppingMin.on_epoch_end is handling an epoch before min_epochs.
EarlyBeforeMin ==
    /\ early.pc = "epoch"
    /\ early.epoch < early.min_epochs
\* The attributes early stopping works with are left as they are.
EarlyKept ==
    /\ early'.best = early.best
    /\ early'.wait = early.wait
    /\ early'.best_weights = early.best_weights
    /\ early'.stopped_epoch = early.stopped_epoch
    /\ early'.stop_training = early.stop_training
    /\ early'.weights = early.weights
\* The epochs below min_epochs have ended and nothing else.
OnlyEarlyEpochs ==
    /\ early.pc \notin {"constructed", "epoch"}
    /\ early.epoch < early.min_epochs

\* C22: with min_epochs = M the callback does not stop training before M
\* epochs: at the end of an epoch with index < M, whatever the monitored value
\* and the patience, on_epoch_end changes none of best, wait, best_weights,
\* stopped_epoch and model.stop_training, so stop_training is not set while
\* only epochs with index < M have ended.
C22_AtLeastMinEpochs ==
    /\ [][EarlyBeforeMin => EarlyKept]_vars
    /\ [](OnlyEarlyEpochs => (~early.stop_training /\ early.wait = 0
                               /\ early.best_weights = NoBest
                               /\ early.stopped_epoch = 0))

\* min_epochs = 2, patience 0, max_epochs = 1, restoring the best weights:
\* the second epoch (index 1) has ended with the monitored value 3 and
\* nothing was recorded, training goes on.
C22_Witness ==
    /\ early.pc = "handled" /\ early.epoch = 1
    /\ early.min_epochs = 2 /\ early.patience = 0 /\ early.max_epochs = 1
    /\ early.restore_best_weights /\ early.mode = "min"
    /\ early.logs = 3
    /\ early.best = PosInf /\ early.wait = 0 /\ early.best_weights = NoBest
    /\ ~early.stop_training

\* C23: SaveWeightsOnEpoch.on_epoch_end asks for exactly one save, and an
\* OSError of that save does not leave on_epoch_end, for every epoch and every
\* interval (None or an integer > 0).
C23_SaveNeverCrashes ==
    saver.pc \in {"done", "raised"} =>
      (Len(saver.saves) = 1 /\ ~saver.propagated)

\* The layer was built for an input its kernel fits in.
RowFits ==
    /\ rowc.pc \notin {"constructed", "build_raised"}
    /\ rowc.output_row >= 1
    /\ rowc.output_col >= 1

\* C28: in row_conv2d (on an input the kernel fits in) every iteration i
\* slices the input rows from i * stride_row on and takes exactly
\* kernel_size[0] of them, its 'valid' convolution gives one output row, and
\* the concatenated tensor and the tensor call returns have output_row rows,
\* for every pair of strides.
C28_OneRowPerSlice ==
    RowFits =>
      /\ \A k \in DOMAIN rowc.out :
           /\ rowc.slice_rows[k].start = (k - 1) * rowc.strides[1]
           /\ rowc.slice_rows[k].rows = rowc.kernel_size[1]
           /\ rowc.out[k].ok
           /\ rowc.out[k].shape[3] = 1
      /\ rowc.pc = "returned" => rowc.output.shape[3] = rowc.output_row
      /\ (rowc.pc = "looping" /\ rowc.i = rowc.output_row) =>
           /\ K_concatenate(rowc.out, 2).ok
           /\ K_concatenate(rowc.out, 2).shape[3] = rowc.output_row

====
